---- MODULE Spec2Model ----
(***************************************************************************)
(* A model of the block tree of the bitcoin-rust node: Blockchain::new and *)
(* Blockchain::insert (src/blockchain/mod.rs) with the per-block account   *)
(* state, the block and transaction types and the Merkle root they hash.   *)
(*                                                                         *)
(* SHA-256 and Ed25519 are modelled symbolically: a digest is the tagged   *)
(* tuple of what was hashed (so distinct inputs have distinct digests), a  *)
(* signature is the tagged pair of the signed transaction and the signing  *)
(* key, and it verifies only against that transaction and that key's       *)
(* public key.                                                             *)
(***************************************************************************)
EXTENDS Integers, Sequences, FiniteSets, TLC

(***************************************************************************)
(* Bounds of the model.                                                    *)
(***************************************************************************)
\* Blocks stored besides genesis, in the tree-shaped specification Spec.
MaxBlocks == 4
\* Header nonces 0..MaxHeaderNonce the environment may stamp on a block.
MaxHeaderNonce == 1
\* Blocks stored besides genesis, in the transaction specification SpecTx.
MaxTxBlocks == 2
\* Transactions per block in SpecTx.
MaxTxs == 2
\* account_nonce values 1..MaxAccountNonce carried by input transactions.
MaxAccountNonce == 2
\* Blocks stored besides genesis, in the gossip specification SpecNet.
MaxNetBlocks == 2
\* Blocks a gossip worker's orphan buffer holds when it takes a message.
MaxOrphans == 1
\* Hashes in one NewBlockHashes or GetBlocks message.
MaxHashes == 2
\* Blocks in one Blocks message.
MaxMsgBlocks == 2
\* Transactions in one Transactions message.
MaxMsgTxs == 2
\* Blocks the miner sends on the finished-block channel, in SpecNode.
MaxMined == 2
\* Blocks stored besides genesis when a peer's block is taken, in SpecNode.
MaxNodeBlocks == 1
\* Signals waiting on a control channel.
MaxSignals == 1
\* Transactions waiting on the finished-transaction channel.
MaxPendingTxs == 1
\* The pacing parameters 0..MaxLambda of Start.
MaxLambda == 0
MaxTheta == 1
MaxPoolTxs == 1
\* Leaves of the Merkle trees of SpecMerkle.
MaxLeaves == 6
\* Mempool entries at which the peers of SpecSelect stop sending.
MaxSelectPool == 2

(***************************************************************************)
(* Program constants.                                                      *)
(***************************************************************************)
\* Blockchain::new seeds the accounts of the key seeds 0..2.
NumSeeded == 3
\* Balance of the first seeded account.
GenesisBalance == 10000
\* miner: upper limit on the number of transactions per block.
BLOCK_SIZE_LIMIT == 30

\* Key seeds: the seeded ones and one key that genesis does not know.
Seeds == 0 .. (NumSeeded - 1)
Outsider == NumSeeded

(***************************************************************************)
(* Hashing, keys, addresses, signatures.                                   *)
(***************************************************************************)
\* The all-zero H256 (genesis parent, root of the empty Merkle tree).
H256Zero == <<"h256", <<>>>>

\* ring::digest::digest(&SHA256, bytes): collision-free, symbolic.
SHA256(bytes) == <<"sha256", bytes>>

\* Ed25519KeyPair::from_seed_unchecked(&[seed;32]).public_key()
PublicKey(seed) == <<"ed25519_pk", seed>>

\* Address::from_public_key_bytes: the tail of the key's SHA-256 digest.
AddressOf(public_key) == <<"addr", SHA256(public_key)>>

\* transaction::sign(t, key)
sign(t, seed) == <<"ed25519_sig", t, seed>>

\* transaction::verify(t, public_key, signature)
verify(t, public_key, signature) ==
    /\ signature[2] = t
    /\ PublicKey(signature[3]) = public_key

\* <SignedTransaction as Hashable>::hash: SHA-256 of the serialized struct.
HashTxn(txn) ==
    SHA256(<<txn.transaction.account_nonce, txn.transaction.receiver,
             txn.transaction.value, txn.signature, txn.public_key>>)

(***************************************************************************)
(* Merkle root of a transaction list (MerkleTree::new(..).root()).         *)
(***************************************************************************)
RECURSIVE MerkleReduce(_)
MerkleReduce(row) ==
    IF Len(row) = 1 THEN row[1]
    ELSE LET padded == IF Len(row) % 2 = 1 THEN Append(row, row[Len(row)]) ELSE row
         IN  MerkleReduce([i \in 1 .. (Len(padded) \div 2) |->
                              SHA256(<<padded[2 * i - 1], padded[2 * i]>>)])

MerkleRoot(txs) ==
    IF txs = <<>> THEN H256Zero
    ELSE MerkleReduce([i \in 1 .. Len(txs) |-> HashTxn(txs[i])])

(***************************************************************************)
(* MerkleTree: the node array, proof and verify.                           *)
(***************************************************************************)
\* Option::None in the node array.
None == <<"None">>

\* The call ended in a panic (arithmetic overflow with overflow checks on,
\* or unwrap() of None).
Panic == "panic"

\* usize::next_power_of_two
RECURSIVE next_power_of_two(_)
next_power_of_two(n) == IF n <= 1 THEN 1 ELSE 2 * next_power_of_two((n + 1) \div 2)

\* (p as f32).log2() as i32, for a power of two p.
RECURSIVE log2(_)
log2(p) == IF p <= 1 THEN 0 ELSE 1 + log2(p \div 2)

RECURSIVE pow2(_)
pow2(k) == IF k <= 0 THEN 1 ELSE 2 * pow2(k - 1)

\* Option::unwrap_or_default
unwrap_or_default(node) == IF node = None THEN H256Zero ELSE node

\* The loop over the levels above the leaves, from the lowest to the root:
\* level_count nodes are hashed from their two children, and an odd row
\* above the root gets a copy of its last node.
RECURSIVE BuildLevels(_, _, _)
BuildLevels(nodes, level, level_count) ==
    IF level < 0 THEN nodes
    ELSE LET level_first_index == pow2(level) - 1
             hashed == [k \in DOMAIN nodes |->
                          IF level_first_index <= k /\ k < level_first_index + level_count
                          THEN SHA256(<<unwrap_or_default(nodes[2 * k + 1]),
                                        unwrap_or_default(nodes[2 * k + 2])>>)
                          ELSE nodes[k]]
             odd    == level_count % 2 = 1 /\ level > 0
             padded == IF odd
                       THEN [hashed EXCEPT ![level_first_index + level_count] =
                                              hashed[level_first_index + level_count - 1]]
                       ELSE hashed
         IN  BuildLevels(padded, level - 1, (IF odd THEN level_count + 1 ELSE level_count) \div 2)

\* MerkleTree::new over the hashes of the data (leaves[i] is data[i].hash()):
\* the nodes are an array indexed from 0, the leaves start at
\* first_leaf_index, and leaf_count counts the copy that completes an odd
\* row of leaves.
MerkleTree_new(leaves) ==
    IF leaves = <<>>
    THEN [root |-> H256Zero, nodes |-> [k \in {} |-> None], leaf_count |-> 0]
    ELSE LET n                == Len(leaves)
             size             == 2 * next_power_of_two(n) - 1
             max_level        == log2(next_power_of_two(n))
             first_leaf_index == pow2(max_level) - 1
             odd              == n % 2 = 1 /\ max_level > 0
             leaf_count       == IF odd THEN n + 1 ELSE n
             row              == [k \in 0 .. size - 1 |->
                                    IF first_leaf_index <= k /\ k < first_leaf_index + n
                                    THEN leaves[k - first_leaf_index + 1]
                                    ELSE IF odd /\ k = first_leaf_index + n THEN leaves[n]
                                    ELSE None]
             nodes            == BuildLevels(row, max_level - 1, leaf_count \div 2)
         IN  [root |-> nodes[0], nodes |-> nodes, leaf_count |-> leaf_count]

\* The outcome of a call: a value, or a panic.
Returns(value) == [panic |-> FALSE, value |-> value]
Panics == [panic |-> TRUE, value |-> <<>>]

\* The for loop of proof: max_level siblings from the leaf row upwards.
RECURSIVE ProofWalk(_, _, _, _)
ProofWalk(nodes, current_index, levels, proof) ==
    IF levels <= 0 THEN Returns(proof)
    ELSE LET sibling_index == IF current_index % 2 = 0 THEN current_index - 1
                              ELSE current_index + 1
             parent_index  == IF current_index % 2 = 0 THEN (current_index - 2) \div 2
                              ELSE (current_index - 1) \div 2
         IN  IF sibling_index \notin DOMAIN nodes THEN Panics
             ELSE IF nodes[sibling_index] = None THEN Panics
             ELSE ProofWalk(nodes, parent_index, levels - 1,
                            Append(proof, nodes[sibling_index]))

\* MerkleTree::proof.  (len.next_power_of_two() as f32 / 2.0) as usize is 0
\* for the one-node tree, and 0 - 1 overflows usize: a panic when the build
\* checks overflow, a wrapped index and an empty loop when it does not.
MerkleTree_proof(tree, index, overflow_checks) ==
    IF index >= tree.leaf_count THEN Returns(<<>>)
    ELSE LET len       == Cardinality(DOMAIN tree.nodes)
             half      == next_power_of_two(len) \div 2
             max_level == log2(next_power_of_two(len)) - 1
         IN  IF half = 0 THEN (IF overflow_checks THEN Panics ELSE Returns(<<>>))
             ELSE ProofWalk(tree.nodes, half - 1 + index, max_level, <<>>)

\* The for loop of verify.  An index below 2 on the right-child branch
\* overflows usize: a panic when the build checks overflow; without the
\* check the index wraps to all ones, which the negative integers of the
\* model follow (odd, and its parent all ones again).
RECURSIVE VerifyWalk(_, _, _, _)
VerifyWalk(current_hash, current_index, proof, overflow_checks) ==
    IF proof = <<>> THEN Returns(current_hash)
    ELSE IF current_index % 2 = 0
    THEN IF current_index < 2 /\ overflow_checks THEN Panics
         ELSE VerifyWalk(SHA256(<<Head(proof), current_hash>>),
                         (current_index - 2) \div 2, Tail(proof), overflow_checks)
    ELSE IF current_index < 1 /\ overflow_checks THEN Panics
         ELSE VerifyWalk(SHA256(<<current_hash, Head(proof)>>),
                         (current_index - 1) \div 2, Tail(proof), overflow_checks)

\* merkle::verify
merkle_verify(root, datum, proof, index, leaf_size, overflow_checks) ==
    IF index >= leaf_size THEN Returns(FALSE)
    ELSE LET walked == VerifyWalk(datum, next_power_of_two(leaf_size) - 1 + index, proof,
                                  overflow_checks)
         IN  IF walked.panic THEN Panics ELSE Returns(walked.value = root)

(***************************************************************************)
(* Blocks.                                                                 *)
(***************************************************************************)
\* <Header as Hashable>::hash: SHA-256 of the serialized header.
HashHeader(header) ==
    SHA256(<<header.parent, header.nonce, header.difficulty,
             header.timestamp, header.merkle_root>>)

\* <Block as Hashable>::hash: the hash of the header only.
HashBlock(block) == HashHeader(block.header)

\* Block::get_parent
get_parent(block) == block.header.parent

\* The difficulty constant of Blockchain::new.
GenesisDifficulty == <<"h256", <<"0000100000000000000000000000000000000000000000000000000000000000">>>>

MkBlock(parent, nonce, difficulty, timestamp, txs) ==
    [header  |-> [parent |-> parent, nonce |-> nonce, difficulty |-> difficulty,
                  timestamp |-> timestamp, merkle_root |-> MerkleRoot(txs)],
     content |-> [transactions |-> txs]]

\* The genesis block of Blockchain::new.
GenesisBlock == MkBlock(H256Zero, 0, GenesisDifficulty, 0, <<>>)

\* generate_random_block(parent): random nonce and timestamp, the default
\* (all-zero) difficulty, no transactions.
generate_random_block(parent, nonce, timestamp) ==
    MkBlock(parent, nonce, H256Zero, timestamp, <<>>)

\* block.hash() <= block.get_difficulty(), the byte-wise order of H256.  A
\* symbolic digest has no bytes: no digest is at or below the all-zero
\* target, and below any other target the header's nonce decides, the even
\* nonces standing for the ones that win the proof of work.
HashWithinTarget(block) ==
    IF block.header.difficulty = H256Zero THEN FALSE
    ELSE block.header.nonce % 2 = 0

\* The genesis state: three seeded accounts, only the first one funded.
GenesisState ==
    [a \in {AddressOf(PublicKey(s)) : s \in Seeds} |->
        IF a = AddressOf(PublicKey(0)) THEN <<0, GenesisBalance>> ELSE <<0, 0>>]

(***************************************************************************)
(* State of the program.                                                   *)
(***************************************************************************)
VARIABLES
    map,    \* Blockchain.map : H256 -> BlockNode [block, height, state]
    tip,    \* Blockchain.tip
    arg,    \* the block passed to the latest call of insert
    ret,    \* what that call returned
    mempool,          \* Mempool.map : H256 -> SignedTransaction
    blockchain_lock,  \* Mutex<Blockchain>: "free", "poisoned" or the holder
    mempool_lock,     \* Mutex<Mempool>: "free" or "poisoned"
    gw,               \* gossip worker threads: position and locals
    orphan_buffer,    \* each gossip worker's orphan_buffer
    miner,            \* miner thread: operating_state, position, locals
    miner_ctl,        \* the miner's control_chan
    emitted,          \* every block sent on finished_block_chan, in order
    consumed,         \* how many of them the finished-block worker has read
    fbw,              \* finished-block worker thread (miner/worker.rs)
    gen,              \* generator thread: operating_state, position
    gen_ctl,          \* the generator's control_chan
    finished_txn,     \* finished_txn_chan: transactions sent and not yet read
    relay             \* transaction relay thread (generator/generator.rs)

chainVars == <<map, tip, arg, ret>>
gossipVars == <<mempool, blockchain_lock, mempool_lock, gw, orphan_buffer>>
minerVars == <<miner, miner_ctl, emitted, consumed, fbw>>
genVars == <<gen, gen_ctl, finished_txn, relay>>
vars == <<map, tip, arg, ret, mempool, blockchain_lock, mempool_lock, gw,
          orphan_buffer, miner, miner_ctl, emitted, consumed, fbw, gen, gen_ctl,
          finished_txn, relay>>

\* Result<(), bool> of insert.
Ok == "Ok"
MissingParent == "Err(true)"
Invalid == "Err(false)"
NoCall == "none"

\* HashMap::insert
Put(f, k, v) == [x \in (DOMAIN f) \cup {k} |-> IF x = k THEN v ELSE f[x]]

(***************************************************************************)
(* Blockchain::new                                                         *)
(***************************************************************************)
new_map ==
    [h \in {HashBlock(GenesisBlock)} |->
        [block |-> GenesisBlock, height |-> 0, state |-> GenesisState]]

new_tip == HashBlock(GenesisBlock)

(***************************************************************************)
(* Blockchain::insert                                                      *)
(***************************************************************************)
SenderAddress(txn) == AddressOf(txn.public_key)

\* TxnValid without the balance check.
TxnValid_NoBalanceCheck(parent_state, txn) ==
    /\ verify(txn.transaction, txn.public_key, txn.signature)
    /\ SenderAddress(txn) \in DOMAIN parent_state
    /\ parent_state[SenderAddress(txn)][1] + 1 = txn.transaction.account_nonce

\* The validation of one transaction against the parent's state: signature,
\* sender known, account nonce, balance.
TxnValid(parent_state, txn) ==
    /\ verify(txn.transaction, txn.public_key, txn.signature)
    /\ SenderAddress(txn) \in DOMAIN parent_state
    /\ parent_state[SenderAddress(txn)][1] + 1 = txn.transaction.account_nonce
    /\ ~ (parent_state[SenderAddress(txn)][2] < txn.transaction.value)

\* NodeHeight without the increment.
NodeHeight_SameAsParent(parent_node) == parent_node.height

\* let height = parent_node.height + 1
NodeHeight(parent_node) == parent_node.height + 1

\* One round of the second loop: both lookups read parent_state, both
\* writes go to new_state.
ApplyTxn(parent_state, new_state, txn) ==
    LET sender_address   == SenderAddress(txn)
        receiver_address == txn.transaction.receiver
        value            == txn.transaction.value
        after_sender ==
            IF sender_address \in DOMAIN parent_state
            THEN Put(new_state, sender_address,
                     <<parent_state[sender_address][1] + 1,
                       parent_state[sender_address][2] - value>>)
            ELSE new_state
    IN  IF receiver_address \in DOMAIN parent_state
        THEN Put(after_sender, receiver_address,
                 <<parent_state[receiver_address][1],
                   parent_state[receiver_address][2] + value>>)
        ELSE after_sender

RECURSIVE ApplyTxns(_, _, _)
ApplyTxns(parent_state, new_state, txs) ==
    IF txs = <<>> THEN new_state
    ELSE ApplyTxns(parent_state, ApplyTxn(parent_state, new_state, Head(txs)), Tail(txs))

\* let mut new_state = parent_state.clone(); for txn in ... { ... }
NewState(parent_state, txs) == ApplyTxns(parent_state, parent_state, txs)

\* UpdateTip taking the later block on a tie.
UpdateTip_LastSeenWinsTies(cur_tip, tip_height, height, block_hash) ==
    IF height >= tip_height THEN block_hash ELSE cur_tip

\* if height > tip_node.height { self.tip = block.hash(); }
UpdateTip(cur_tip, tip_height, height, block_hash) ==
    IF height > tip_height THEN block_hash ELSE cur_tip

\* PreCheck with the duplicate check ahead of the parent check.
PreCheck_DuplicateFirst(bc_map, block) ==
    IF HashBlock(block) \in DOMAIN bc_map THEN Invalid
    ELSE IF get_parent(block) \notin DOMAIN bc_map THEN MissingParent
    ELSE Ok

\* The two early returns at the head of insert: the parent lookup, then the
\* duplicate check.
PreCheck(bc_map, block) ==
    IF get_parent(block) \notin DOMAIN bc_map THEN MissingParent
    ELSE IF HashBlock(block) \in DOMAIN bc_map THEN Invalid
    ELSE Ok

\* The node insert stores for a block whose parent is stored.
BlockNodeOf(bc_map, block) ==
    LET parent_node == bc_map[get_parent(block)]
    IN  [block  |-> block,
         height |-> NodeHeight(parent_node),
         state  |-> NewState(parent_node.state, block.content.transactions)]

\* insert storing the node before it validates the transactions.
insert_StoreBeforeValidate(bc_map, bc_tip, block) ==
    LET txs == block.content.transactions
        pre == PreCheck(bc_map, block)
    IN  IF pre # Ok THEN [ret |-> pre, map |-> bc_map, tip |-> bc_tip]
        ELSE LET blocknode == BlockNodeOf(bc_map, block)
                 stored    == Put(bc_map, HashBlock(block), blocknode)
             IN  IF \E i \in 1 .. Len(txs) :
                        ~ TxnValid(bc_map[get_parent(block)].state, txs[i])
                 THEN [ret |-> Invalid, map |-> stored, tip |-> bc_tip]
                 ELSE [ret |-> Ok,
                       map |-> stored,
                       tip |-> UpdateTip(bc_tip, stored[bc_tip].height,
                                         blocknode.height, HashBlock(block))]

\* insert answering Ok for a block on a stored parent without storing it.
insert_OkNotStored(bc_map, bc_tip, block) ==
    [ret |-> IF get_parent(block) \in DOMAIN bc_map THEN Ok ELSE MissingParent,
     map |-> bc_map,
     tip |-> bc_tip]

\* The whole of insert: what it returns and the map and tip it leaves.
insert(bc_map, bc_tip, block) ==
    LET txs == block.content.transactions
        pre == PreCheck(bc_map, block)
    IN  IF pre # Ok THEN [ret |-> pre, map |-> bc_map, tip |-> bc_tip]
        ELSE IF \E i \in 1 .. Len(txs) :
                   ~ TxnValid(bc_map[get_parent(block)].state, txs[i])
        THEN [ret |-> Invalid, map |-> bc_map, tip |-> bc_tip]
        ELSE LET blocknode == BlockNodeOf(bc_map, block)
                 stored    == Put(bc_map, HashBlock(block), blocknode)
             IN  [ret |-> Ok,
                  map |-> stored,
                  tip |-> UpdateTip(bc_tip, stored[bc_tip].height,
                                    blocknode.height, HashBlock(block))]

(***************************************************************************)
(* Blockchain::all_blocks_in_longest_chain: walk from the tip to the node  *)
(* of height 0, then reverse.                                              *)
(***************************************************************************)
\* WalkUp testing the height before it pushes the hash.
RECURSIVE WalkUp_BreakBeforePush(_, _, _)
WalkUp_BreakBeforePush(bc_map, cur_block_hash, longest_chain) ==
    IF bc_map[cur_block_hash].height = 0 THEN longest_chain
    ELSE WalkUp_BreakBeforePush(bc_map, get_parent(bc_map[cur_block_hash].block),
                                Append(longest_chain, cur_block_hash))

RECURSIVE WalkUp(_, _, _)
WalkUp(bc_map, cur_block_hash, longest_chain) ==
    LET pushed == Append(longest_chain, cur_block_hash)
    IN  IF bc_map[cur_block_hash].height = 0 THEN pushed
        ELSE WalkUp(bc_map, get_parent(bc_map[cur_block_hash].block), pushed)

Reverse(s) == [i \in 1 .. Len(s) |-> s[Len(s) + 1 - i]]

all_blocks_in_longest_chain(bc_map, bc_tip) == Reverse(WalkUp(bc_map, bc_tip, <<>>))

(***************************************************************************)
(* Messages and the gossip worker (network/worker.rs).                     *)
(***************************************************************************)
NewBlockHashes(hashes) == [type |-> "NewBlockHashes", body |-> hashes]
GetBlocks(hashes) == [type |-> "GetBlocks", body |-> hashes]
Blocks(blocks) == [type |-> "Blocks", body |-> blocks]
NewTransactionHashes(hashes) == [type |-> "NewTransactionHashes", body |-> hashes]
Transactions(transactions) == [type |-> "Transactions", body |-> transactions]
\* Bytes of a peer that bincode::deserialize does not decode to a Message.
Malformed == [type |-> "malformed", body |-> <<>>]
\* No message in hand.
NoMessage == [type |-> "none", body |-> <<>>]

\* The gossip worker threads Worker::start spawns.
Workers == {"w1", "w2"}

\* HashMap::new
EmptyMap == [x \in {} |-> x]

\* HashMap::remove
Remove(f, k) == [x \in (DOMAIN f) \ {k} |-> f[x]]

\* A gossip worker blocked in msg_chan.recv(), with nothing written yet.
IdleWorker ==
    [pc |-> "recv", msg |-> NoMessage, blocks |-> <<>>, i |-> 0,
     new_block_hashes |-> <<>>, reply |-> <<>>, bcast |-> <<>>]

\* UnknownHashes pushing the hashes the blockchain holds.
RECURSIVE UnknownHashes_PushKnown(_, _, _)
UnknownHashes_PushKnown(bc_map, hashes, unknown) ==
    IF hashes = <<>> THEN unknown
    ELSE UnknownHashes_PushKnown(bc_map, Tail(hashes),
                                 IF Head(hashes) \in DOMAIN bc_map
                                 THEN Append(unknown, Head(hashes)) ELSE unknown)

\* NewBlockHashes: for hash in hashes.iter() { Err(_) => unknown.push(hash) }
RECURSIVE UnknownHashes(_, _, _)
UnknownHashes(bc_map, hashes, unknown) ==
    IF hashes = <<>> THEN unknown
    ELSE UnknownHashes(bc_map, Tail(hashes),
                       IF Head(hashes) \in DOMAIN bc_map
                       THEN unknown ELSE Append(unknown, Head(hashes)))

\* KnownBlocks putting each block in front of the ones collected so far.
RECURSIVE KnownBlocks_PushFront(_, _, _)
KnownBlocks_PushFront(bc_map, hashes, known) ==
    IF hashes = <<>> THEN known
    ELSE KnownBlocks_PushFront(bc_map, Tail(hashes),
                               IF Head(hashes) \in DOMAIN bc_map
                               THEN <<bc_map[Head(hashes)].block>> \o known ELSE known)

\* GetBlocks: for hash in hashes.iter() { Ok(block) => known.push(block) }
RECURSIVE KnownBlocks(_, _, _)
KnownBlocks(bc_map, hashes, known) ==
    IF hashes = <<>> THEN known
    ELSE KnownBlocks(bc_map, Tail(hashes),
                     IF Head(hashes) \in DOMAIN bc_map
                     THEN Append(known, bc_map[Head(hashes)].block) ELSE known)

\* AdmitTransactions without the signature check.
RECURSIVE AdmitTransactions_NoVerify(_, _, _)
AdmitTransactions_NoVerify(mp, transactions, new_hashes) ==
    IF transactions = <<>> THEN [mempool |-> mp, new_hashes |-> new_hashes]
    ELSE LET txn == Head(transactions)
         IN  IF HashTxn(txn) \notin DOMAIN mp
             THEN AdmitTransactions_NoVerify(Put(mp, HashTxn(txn), txn), Tail(transactions),
                                             Append(new_hashes, HashTxn(txn)))
             ELSE AdmitTransactions_NoVerify(mp, Tail(transactions), new_hashes)

\* Transactions: a transaction whose hash the mempool lacks and whose
\* signature verifies is stored under its hash and its hash collected.
RECURSIVE AdmitTransactions(_, _, _)
AdmitTransactions(mp, transactions, new_hashes) ==
    IF transactions = <<>> THEN [mempool |-> mp, new_hashes |-> new_hashes]
    ELSE LET txn == Head(transactions)
         IN  IF /\ HashTxn(txn) \notin DOMAIN mp
                /\ verify(txn.transaction, txn.public_key, txn.signature)
             THEN AdmitTransactions(Put(mp, HashTxn(txn), txn), Tail(transactions),
                                    Append(new_hashes, HashTxn(txn)))
             ELSE AdmitTransactions(mp, Tail(transactions), new_hashes)

\* for txn in block.content.transactions.iter() { mempool.map.remove(&txn.hash()) }
RECURSIVE RemoveTxns(_, _)
RemoveTxns(mp, transactions) ==
    IF transactions = <<>> THEN mp
    ELSE RemoveTxns(Remove(mp, HashTxn(Head(transactions))), Tail(transactions))

\* PushOrphan filing the block under its own hash.
PushOrphan_KeyedByHash(buffer, block) ==
    LET key == HashBlock(block)
    IN  Put(buffer, key,
            Append(IF key \in DOMAIN buffer THEN buffer[key] ELSE <<>>, block))

\* orphan_buffer.entry(parent).or_insert_with(Vec::new).push(block)
PushOrphan(buffer, block) ==
    LET parent == get_parent(block)
    IN  Put(buffer, parent,
            Append(IF parent \in DOMAIN buffer THEN buffer[parent] ELSE <<>>, block))

\* The worklist after an insert: the orphans waiting for block_hash join it.
ExtendWithOrphans(blocks, buffer, block_hash) ==
    IF block_hash \in DOMAIN buffer THEN blocks \o buffer[block_hash] ELSE blocks

\* TakeOrphans keeping the entry of the block that arrived.
TakeOrphans_KeepEntry(buffer, block_hash) == buffer

\* The orphan buffer after an insert: the entry of block_hash is removed.
TakeOrphans(buffer, block_hash) ==
    IF block_hash \in DOMAIN buffer THEN Remove(buffer, block_hash) ELSE buffer

\* The while loop of the Blocks handler, run under the blockchain lock from
\* block i of the worklist up to the point where it ends ("end"), where it
\* has inserted a block and asks for the mempool lock ("mempool"), or where
\* a continue sends it back to the loop test with i unchanged ("spin": the
\* same block meets the same test again, without end).
RECURSIVE BlocksLoop(_)
BlocksLoop(st) ==
    IF ~ (st.i < Len(st.blocks)) THEN [st EXCEPT !.pc = "end"]
    ELSE LET block == st.blocks[st.i + 1]
         IN  IF ~ HashWithinTarget(block)
             THEN [st EXCEPT !.pc = "spin"]
             ELSE IF HashBlock(block) \in DOMAIN st.map
             THEN [st EXCEPT !.pc = "spin"]
             ELSE LET out == insert(st.map, st.tip, block)
                  IN  IF out.ret = Ok
                      THEN [st EXCEPT !.map = out.map, !.tip = out.tip,
                                      !.new_block_hashes = Append(@, HashBlock(block)),
                                      !.pc = "mempool"]
                      ELSE IF out.ret = MissingParent
                      THEN BlocksLoop([st EXCEPT !.orphan_buffer = PushOrphan(@, block),
                                                 !.reply = Append(@, GetBlocks(<<HashBlock(block)>>)),
                                                 !.i = @ + 1])
                      ELSE BlocksLoop([st EXCEPT !.i = @ + 1])

(***************************************************************************)
(* The controllers of the miner and of the generator (miner/mod.rs,        *)
(* generator/mod.rs): operating states and control signals.                *)
(***************************************************************************)
Paused == [mode |-> "Paused", lambda |-> 0]
Run(i) == [mode |-> "Run", lambda |-> i]
ShutDown == [mode |-> "ShutDown", lambda |-> 0]
\* Not a state: the signal was met by unimplemented!().
Unimplemented == [mode |-> "unimplemented", lambda |-> 0]

Start(i) == [signal |-> "Start", lambda |-> i]
Update == [signal |-> "Update", lambda |-> 0]
Exit == [signal |-> "Exit", lambda |-> 0]

\* OnSignal with an Exit arm that pauses.
OnSignal_ExitPauses(operating_state, signal) ==
    IF signal.signal = "Exit" THEN Paused
    ELSE IF signal.signal = "Start" THEN Run(signal.lambda)
    ELSE IF operating_state.mode = "Paused" THEN operating_state
    ELSE Unimplemented

\* The match on the signal read in Paused (recv) or in Run (try_recv): Exit
\* and Start set the state, Update does nothing in Paused and is
\* unimplemented!() in Run.
OnSignal(operating_state, signal) ==
    IF signal.signal = "Exit" THEN ShutDown
    ELSE IF signal.signal = "Start" THEN Run(signal.lambda)
    ELSE IF operating_state.mode = "Paused" THEN operating_state
    ELSE Unimplemented

\* A controller thread as new() and start() leave it: Paused, at the head
\* of its loop, with no attempt under way.
NewController ==
    [operating_state |-> Paused, pc |-> "ctl", parent_hash |-> H256Zero,
     transactions |-> <<>>]

\* The head of miner_loop and generator_loop: one turn of the match on
\* operating_state, given the control channel.  Paused blocks in recv(); Run
\* polls with try_recv(); ShutDown returns, at the head of the loop or right
\* after the match.  work is the position of the first step of an attempt.
ControlTurn(thread, chan, work) ==
    IF thread.operating_state.mode = "Paused"
    THEN [enabled |-> chan # <<>>,
          thread  |-> IF chan = <<>> THEN thread
                      ELSE [thread EXCEPT
                              !.operating_state = OnSignal(thread.operating_state, Head(chan))],
          chan    |-> IF chan = <<>> THEN chan ELSE Tail(chan)]
    ELSE IF thread.operating_state.mode = "ShutDown"
    THEN [enabled |-> TRUE, thread |-> [thread EXCEPT !.pc = "returned"], chan |-> chan]
    ELSE IF chan = <<>>
    THEN [enabled |-> TRUE, thread |-> [thread EXCEPT !.pc = work], chan |-> chan]
    ELSE LET next == OnSignal(thread.operating_state, Head(chan))
         IN  [enabled |-> TRUE,
              thread  |-> IF next = Unimplemented THEN [thread EXCEPT !.pc = "panicked"]
                          ELSE IF next = ShutDown
                          THEN [thread EXCEPT !.operating_state = next, !.pc = "returned"]
                          ELSE [thread EXCEPT !.operating_state = next, !.pc = work],
              chan    |-> Tail(chan)]

(***************************************************************************)
(* The miner's selection of transactions and the generator's choices.      *)
(***************************************************************************)
\* The orders in which mempool.map.values() can hand out the entries.
Orders(keys) ==
    {f \in [1 .. Cardinality(keys) -> keys] :
        \A a, b \in 1 .. Cardinality(keys) : a # b => f[a] # f[b]}

\* SelectTxns without the is_sender_unique test.
RECURSIVE SelectTxns_AnySender(_, _, _, _)
SelectTxns_AnySender(parent_state, txns, transactions, removal_hashes) ==
    IF txns = <<>> \/ Len(transactions) = BLOCK_SIZE_LIMIT
    THEN [panicked |-> FALSE, transactions |-> transactions,
          removal_hashes |-> removal_hashes]
    ELSE LET txn == Head(txns)
             sender_address == SenderAddress(txn)
         IN  IF sender_address \notin DOMAIN parent_state
             THEN [panicked |-> TRUE, transactions |-> transactions,
                   removal_hashes |-> removal_hashes]
             ELSE LET sender_info == parent_state[sender_address]
                      is_nonce_valid ==
                          txn.transaction.account_nonce = sender_info[1] + 1
                      is_balance_sufficient == txn.transaction.value <= sender_info[2]
                  IN  SelectTxns_AnySender(parent_state, Tail(txns),
                                 IF is_nonce_valid /\ is_balance_sufficient
                                 THEN Append(transactions, txn) ELSE transactions,
                                 Append(removal_hashes, HashTxn(txn)))

\* The for loop over the mempool: it stops once BLOCK_SIZE_LIMIT
\* transactions are accepted, indexes parent_state.map with the sender's
\* address (a panic when the address is not a key), accepts a transaction
\* with the next nonce, a covered value and a sender not yet in the block,
\* and schedules every entry it has looked at for removal.
RECURSIVE SelectTxns(_, _, _, _)
SelectTxns(parent_state, txns, transactions, removal_hashes) ==
    IF txns = <<>> \/ Len(transactions) = BLOCK_SIZE_LIMIT
    THEN [panicked |-> FALSE, transactions |-> transactions,
          removal_hashes |-> removal_hashes]
    ELSE LET txn == Head(txns)
             sender_address == SenderAddress(txn)
         IN  IF sender_address \notin DOMAIN parent_state
             THEN [panicked |-> TRUE, transactions |-> transactions,
                   removal_hashes |-> removal_hashes]
             ELSE LET sender_info == parent_state[sender_address]
                      is_nonce_valid ==
                          txn.transaction.account_nonce = sender_info[1] + 1
                      is_balance_sufficient == txn.transaction.value <= sender_info[2]
                      is_sender_unique ==
                          ~ \E k \in 1 .. Len(transactions) :
                                SenderAddress(transactions[k]) = sender_address
                  IN  SelectTxns(parent_state, Tail(txns),
                                 IF is_nonce_valid /\ is_balance_sufficient /\ is_sender_unique
                                 THEN Append(transactions, txn) ELSE transactions,
                                 Append(removal_hashes, HashTxn(txn)))

\* for txn_hash in removal_hashes { mempool.map.remove(&txn_hash) }
RECURSIVE RemoveHashes(_, _)
RemoveHashes(mp, hashes) ==
    IF hashes = <<>> THEN mp
    ELSE RemoveHashes(Remove(mp, Head(hashes)), Tail(hashes))

\* SystemTime::now() in milliseconds: the clock of the model ticks with
\* every block the miner sends.
Now == Len(emitted) + 1

\* GenValues with the upper end of the range included.
GenValues_Inclusive(max_value) == {v \in {1, max_value} : 1 <= v /\ v <= max_value}

\* rng.gen_range(1..max_value): the ends of the range stand for it.
GenValues(max_value) == {v \in {1, max_value - 1} : 1 <= v /\ v < max_value}

(***************************************************************************)
(* Inputs of the environment.                                              *)
(***************************************************************************)
HeaderNonces == 0 .. MaxHeaderNonce

\* A transaction from `seed` to `receiver`, signed with the key `signer`.
MkTxn(seed, receiver, account_nonce, value, signer) ==
    LET t == [account_nonce |-> account_nonce, receiver |-> receiver, value |-> value]
    IN  [transaction |-> t, signature |-> sign(t, signer), public_key |-> PublicKey(seed)]

\* Transaction lists of the blocks of Spec: none, one transfer of the funded
\* account (valid on genesis, a replay further down), or that transfer with
\* a signature of another key.
TreeContents ==
    {<<>>,
     <<MkTxn(0, AddressOf(PublicKey(1)), 1, 4000, 0)>>,
     <<MkTxn(0, AddressOf(PublicKey(1)), 1, 4000, 1)>>}

\* Parents of the blocks of Spec: a stored block, the zero hash (which makes
\* the genesis block itself an input), or a block that is not stored yet.
TreeParents ==
    (DOMAIN map) \cup {H256Zero}
    \cup {HashBlock(MkBlock(p, n, GenesisDifficulty, 0, <<>>)) :
             p \in DOMAIN map, n \in HeaderNonces}

TreeBlocks ==
    {MkBlock(p, n, GenesisDifficulty, 0, txs) :
        p \in TreeParents, n \in HeaderNonces, txs \in TreeContents}

\* Keys that sign in SpecTx: the funded account, an unfunded seeded account
\* and the key genesis does not know.
TxSeeds == {0, 1, Outsider}
TxValues == {4000, 7000}

TxUniverse ==
    {MkTxn(s, AddressOf(PublicKey(r)), n, v, IF own THEN s ELSE (s + 1) % (NumSeeded + 1)) :
        s \in TxSeeds, r \in TxSeeds, n \in 1 .. MaxAccountNonce, v \in TxValues,
        own \in BOOLEAN}

TxLists == UNION {[1 .. n -> TxUniverse] : n \in 0 .. MaxTxs}

TxBlocks ==
    {MkBlock(p, 0, GenesisDifficulty, 0, txs) : p \in DOMAIN map, txs \in TxLists}

(***************************************************************************)
(* Actions.                                                                *)
(***************************************************************************)
Init ==
    /\ map = new_map
    /\ tip = new_tip
    /\ arg = GenesisBlock
    /\ ret = NoCall
    /\ mempool = EmptyMap
    /\ blockchain_lock = "free"
    /\ mempool_lock = "free"
    /\ gw = [w \in Workers |-> IdleWorker]
    /\ orphan_buffer = [w \in Workers |-> EmptyMap]
    /\ miner = NewController
    /\ miner_ctl = <<>>
    /\ emitted = <<>>
    /\ consumed = 0
    /\ fbw = [pc |-> "recv", result |-> NoCall]
    /\ gen = NewController
    /\ gen_ctl = <<>>
    /\ finished_txn = <<>>
    /\ relay = [pc |-> "recv"]

\* One call blockchain.insert(&block).
Insert(block) ==
    LET out == insert(map, tip, block)
    IN  /\ map' = out.map
        /\ tip' = out.tip
        /\ arg' = block
        /\ ret' = out.ret
        /\ UNCHANGED <<gossipVars, minerVars, genVars>>

\* The caller takes the Result and goes on (let _ = blockchain.insert(..)).
Return ==
    /\ ret # NoCall
    /\ arg' = GenesisBlock
    /\ ret' = NoCall
    /\ UNCHANGED <<map, tip>>
    /\ UNCHANGED <<gossipVars, minerVars, genVars>>

(***************************************************************************)
(* SpecMerkle: trees over up to MaxLeaves data items, a proof asked at any *)
(* index and verified against the root, in builds with and without         *)
(* overflow checks.                                                        *)
(***************************************************************************)
\* The data of the tests: 32-byte items, two different ones, in any order.
MerkleItems == {"0a0b0c0d", "01010202"}

MerkleData == UNION {[1 .. n -> MerkleItems] : n \in 0 .. MaxLeaves}

\* <H256 as Hashable>::hash
HashItem(item) == SHA256(item)

\* The datum handed to verify: the hash of the item at the index, or of the
\* all-zero item where the data has no such index.
DatumAt(data, index) ==
    IF index < Len(data) THEN HashItem(data[index + 1]) ELSE HashItem("00000000")

\* let proof = MerkleTree::new(&data).proof(index);
\* verify(&tree.root(), &datum, &proof, index, data.len())
MerkleProofVerify(data, index, overflow_checks) ==
    LET tree     == MerkleTree_new([k \in 1 .. Len(data) |-> HashItem(data[k])])
        proof    == MerkleTree_proof(tree, index, overflow_checks)
        verified == IF proof.panic THEN Panics
                    ELSE merkle_verify(tree.root, DatumAt(data, index), proof.value, index,
                                       Len(data), overflow_checks)
    IN  /\ ret = NoCall
        /\ arg' = [data |-> data, index |-> index, overflow_checks |-> overflow_checks,
                   root |-> tree.root, proof |-> proof, verified |-> verified]
        /\ ret' = IF proof.panic \/ verified.panic THEN Panic ELSE Ok
        /\ UNCHANGED <<map, tip>>
        /\ UNCHANGED <<gossipVars, minerVars, genVars>>

MerkleCall ==
    /\ ret = NoCall
    /\ \E data \in MerkleData, index \in 0 .. MaxLeaves + 1, overflow_checks \in BOOLEAN :
          MerkleProofVerify(data, index, overflow_checks)

NextMerkle ==
    \/ MerkleCall
    \/ Return

SpecMerkle == Init /\ [][NextMerkle]_vars

\* insert called by the test suite and the workers with blocks that carry few
\* transactions, on a tree of up to MaxBlocks blocks on top of genesis.
InsertTree ==
    /\ ret = NoCall
    /\ Cardinality(DOMAIN map) <= MaxBlocks
    /\ \E block \in TreeBlocks : Insert(block)

\* insert called with blocks of up to MaxTxs arbitrary transactions, as a
\* peer may send them.
InsertTx ==
    /\ ret = NoCall
    /\ Cardinality(DOMAIN map) <= MaxTxBlocks
    /\ \E block \in TxBlocks : Insert(block)

Next == InsertTree \/ Return
Spec == Init /\ [][Next]_vars

NextTx == InsertTx \/ Return
SpecTx == Init /\ [][NextTx]_vars

(***************************************************************************)
(* The gossip worker's handlers.                                           *)
(***************************************************************************)
\* Message::NewBlockHashes(hashes), under the blockchain lock.
HandleNewBlockHashes(w, hashes) ==
    LET unknown == UnknownHashes(map, hashes, <<>>)
    IN  /\ gw[w].pc = "recv"
        /\ blockchain_lock = "free"
        /\ gw' = [gw EXCEPT ![w] =
                     [IdleWorker EXCEPT
                        !.pc = "done", !.msg = NewBlockHashes(hashes),
                        !.reply = IF unknown # <<>> THEN <<GetBlocks(unknown)>> ELSE <<>>]]
        /\ UNCHANGED <<chainVars, mempool, blockchain_lock, mempool_lock, orphan_buffer>>
        /\ UNCHANGED <<minerVars, genVars>>

\* Message::GetBlocks(hashes), under the blockchain lock.
HandleGetBlocks(w, hashes) ==
    LET known == KnownBlocks(map, hashes, <<>>)
    IN  /\ gw[w].pc = "recv"
        /\ blockchain_lock = "free"
        /\ gw' = [gw EXCEPT ![w] =
                     [IdleWorker EXCEPT
                        !.pc = "done", !.msg = GetBlocks(hashes),
                        !.reply = IF known # <<>> THEN <<Blocks(known)>> ELSE <<>>]]
        /\ UNCHANGED <<chainVars, mempool, blockchain_lock, mempool_lock, orphan_buffer>>
        /\ UNCHANGED <<minerVars, genVars>>

\* Message::Transactions(transactions), under the mempool lock.
HandleTransactions(w, transactions) ==
    LET out == AdmitTransactions(mempool, transactions, <<>>)
    IN  /\ gw[w].pc = "recv"
        /\ mempool_lock = "free"
        /\ mempool' = out.mempool
        /\ gw' = [gw EXCEPT ![w] =
                     [IdleWorker EXCEPT
                        !.pc = "done", !.msg = Transactions(transactions),
                        !.bcast = IF out.new_hashes # <<>>
                                  THEN <<NewTransactionHashes(out.new_hashes)>> ELSE <<>>]]
        /\ UNCHANGED <<chainVars, blockchain_lock, mempool_lock, orphan_buffer>>
        /\ UNCHANGED <<minerVars, genVars>>

\* What worker w leaves where the Blocks loop stops: at the end of the loop
\* the broadcast is sent and the blockchain lock released, elsewhere the
\* worker keeps the lock.
BlocksStop(w, msg, st) ==
    /\ map' = st.map
    /\ tip' = st.tip
    /\ orphan_buffer' = [orphan_buffer EXCEPT ![w] = st.orphan_buffer]
    /\ blockchain_lock' = IF st.pc = "end" THEN "free" ELSE w
    /\ gw' = [gw EXCEPT ![w] =
                 [pc |-> IF st.pc = "end" THEN "done" ELSE st.pc,
                  msg |-> msg,
                  blocks |-> st.blocks,
                  i |-> st.i,
                  new_block_hashes |-> st.new_block_hashes,
                  reply |-> st.reply,
                  bcast |-> IF st.pc = "end" /\ st.new_block_hashes # <<>>
                            THEN <<NewBlockHashes(st.new_block_hashes)>> ELSE <<>>]]

\* Message::Blocks(blocks): the worker takes the blockchain lock and runs
\* the loop to its first stop.
HandleBlocks(w, blocks) ==
    /\ gw[w].pc = "recv"
    /\ blockchain_lock = "free"
    /\ BlocksStop(w, Blocks(blocks),
                  BlocksLoop([map |-> map, tip |-> tip, blocks |-> blocks, i |-> 0,
                              new_block_hashes |-> <<>>,
                              orphan_buffer |-> orphan_buffer[w],
                              reply |-> <<>>, pc |-> "loop"]))
    /\ UNCHANGED <<arg, ret, mempool, mempool_lock, minerVars, genVars>>

\* The Ok arm after the insert: the worker takes the mempool lock, removes
\* the block's transactions, moves the waiting orphans into the worklist,
\* does i += 1 and runs the loop to its next stop.
BlocksMempool(w) ==
    /\ gw[w].pc = "mempool"
    /\ mempool_lock = "free"
    /\ LET block == gw[w].blocks[gw[w].i + 1]
       IN  /\ mempool' = RemoveTxns(mempool, block.content.transactions)
           /\ BlocksStop(w, gw[w].msg,
                  BlocksLoop([map |-> map, tip |-> tip,
                              blocks |-> ExtendWithOrphans(gw[w].blocks, orphan_buffer[w],
                                                           HashBlock(block)),
                              i |-> gw[w].i + 1,
                              new_block_hashes |-> gw[w].new_block_hashes,
                              orphan_buffer |-> TakeOrphans(orphan_buffer[w], HashBlock(block)),
                              reply |-> gw[w].reply, pc |-> "loop"]))
    /\ UNCHANGED <<arg, ret, mempool_lock, minerVars, genVars>>

\* Bytes that are no Message: bincode::deserialize returns Err and unwrap
\* panics before any lock is taken; the thread of worker w ends.
HandleMalformed(w) ==
    /\ gw[w].pc = "recv"
    /\ gw' = [gw EXCEPT ![w] = [IdleWorker EXCEPT !.pc = "panicked", !.msg = Malformed]]
    /\ UNCHANGED <<chainVars, mempool, blockchain_lock, mempool_lock, orphan_buffer>>
    /\ UNCHANGED <<minerVars, genVars>>

\* The worker goes round its loop to msg_chan.recv().
GossipNext(w) ==
    /\ gw[w].pc = "done"
    /\ gw' = [gw EXCEPT ![w] = IdleWorker]
    /\ UNCHANGED <<chainVars, mempool, blockchain_lock, mempool_lock, orphan_buffer>>
    /\ UNCHANGED <<minerVars, genVars>>

(***************************************************************************)
(* SpecNet: one gossip worker and the messages of its peers.               *)
(***************************************************************************)
NetWorker == "w1"

\* A valid empty block on each stored block.
NetFirstChildren == {MkBlock(p, 0, GenesisDifficulty, 0, <<>>) : p \in DOMAIN map}

NetParents == (DOMAIN map) \cup {HashBlock(b) : b \in NetFirstChildren}

\* Blocks a peer sends: on a stored parent or on a block that is not stored
\* yet, with a nonce that meets the target or not, with the contents of
\* TreeContents; and the blocks generate_random_block makes on stored blocks.
NetBlocks ==
    {MkBlock(p, n, GenesisDifficulty, 0, txs) :
        p \in NetParents, n \in HeaderNonces, txs \in TreeContents}
    \cup {generate_random_block(p, 0, 0) : p \in DOMAIN map}

\* Blocks of a peer that sets the difficulty field of its headers itself:
\* the all-ones target, which every hash meets, on each stored block.
EasyTarget == <<"h256", <<"ffffffffffffffffffffffffffffffffffffffffffffffffffffffffffffffff">>>>

EasyBlocks == {MkBlock(p, 0, EasyTarget, 0, <<>>) : p \in DOMAIN map}

\* Blocks of a peer whose content is not the one the header's merkle_root
\* was computed from: the header of an empty block on a stored block, with
\* a transfer as content.
ForgedBlocks ==
    {[MkBlock(p, 0, GenesisDifficulty, 0, <<>>) EXCEPT !.content.transactions = txs] :
        p \in DOMAIN map, txs \in TreeContents \ {<<>>}}

BlockLists == UNION {[1 .. n -> NetBlocks] : n \in 1 .. MaxMsgBlocks}

NetHashes == NetParents

HashLists == UNION {[1 .. n -> NetHashes] : n \in 0 .. MaxHashes}

\* Transactions a peer sends: the transfer of TreeContents, the same with a
\* signature of another key, and a well-signed transfer of the key genesis
\* does not know.
NetTxs ==
    {MkTxn(0, AddressOf(PublicKey(1)), 1, 4000, 0),
     MkTxn(0, AddressOf(PublicKey(1)), 1, 4000, 1),
     MkTxn(Outsider, AddressOf(PublicKey(0)), 1, 4000, Outsider)}

TxMsgLists == UNION {[1 .. n -> NetTxs] : n \in 1 .. MaxMsgTxs}

RECURSIVE SumLen(_, _)
SumLen(buffer, keys) ==
    IF keys = {} THEN 0
    ELSE LET k == CHOOSE x \in keys : TRUE
         IN  Len(buffer[k]) + SumLen(buffer, keys \ {k})

\* Blocks held in an orphan buffer.
OrphanCount(buffer) == SumLen(buffer, DOMAIN buffer)

RecvNewBlockHashes ==
    /\ gw[NetWorker].pc = "recv"
    /\ \E hashes \in HashLists : HandleNewBlockHashes(NetWorker, hashes)

RecvGetBlocks ==
    /\ gw[NetWorker].pc = "recv"
    /\ \E hashes \in HashLists : HandleGetBlocks(NetWorker, hashes)

RecvBlocks ==
    /\ gw[NetWorker].pc = "recv"
    /\ Cardinality(DOMAIN map) <= MaxNetBlocks
    /\ OrphanCount(orphan_buffer[NetWorker]) <= MaxOrphans
    /\ \E blocks \in BlockLists \cup {<<b>> : b \in EasyBlocks \cup ForgedBlocks} :
          HandleBlocks(NetWorker, blocks)

RecvTransactions ==
    /\ gw[NetWorker].pc = "recv"
    /\ \E transactions \in TxMsgLists : HandleTransactions(NetWorker, transactions)

RecvMalformed == HandleMalformed(NetWorker)

NextNet ==
    \/ RecvNewBlockHashes
    \/ RecvGetBlocks
    \/ RecvBlocks
    \/ RecvTransactions
    \/ RecvMalformed
    \/ BlocksMempool(NetWorker)
    \/ GossipNext(NetWorker)

SpecNet == Init /\ [][NextNet]_vars

(***************************************************************************)
(* SpecWorkers: the gossip workers of Worker::start, each with its own     *)
(* orphan buffer, taking the messages of the peers from the one message    *)
(* channel they share: Blocks with one block, or with a block that has     *)
(* transactions and a stored parent followed by an empty child of it, and  *)
(* Transactions with the transfer the blocks carry.                        *)
(***************************************************************************)
WorkersRecvBlocks ==
    \E w \in Workers :
        /\ gw[w].pc = "recv"
        /\ Cardinality(DOMAIN map) <= MaxNetBlocks
        /\ OrphanCount(orphan_buffer[w]) <= MaxOrphans
        /\ \E b \in NetBlocks :
              \E blocks \in {<<b>>} \cup
                             (IF b.content.transactions # <<>> /\ get_parent(b) \in DOMAIN map
                              THEN {<<b, MkBlock(HashBlock(b), 0, GenesisDifficulty, 0, <<>>)>>}
                              ELSE {}) :
                  HandleBlocks(w, blocks)

WorkersRecvTransactions ==
    \E w \in Workers :
        /\ gw[w].pc = "recv"
        /\ \E transactions \in TreeContents \ {<<>>} : HandleTransactions(w, transactions)

WorkersBlocksMempool == \E w \in Workers : BlocksMempool(w)

WorkersGossipNext == \E w \in Workers : GossipNext(w)

NextWorkers ==
    \/ WorkersRecvBlocks
    \/ WorkersRecvTransactions
    \/ WorkersBlocksMempool
    \/ WorkersGossipNext

SpecWorkers == Init /\ [][NextWorkers]_vars

(***************************************************************************)
(* The threads of a node besides the gossip workers.                       *)
(***************************************************************************)
\* The miner back at the head of its loop, the attempt's locals dropped.
MinerAtHead == [miner EXCEPT !.pc = "ctl", !.parent_hash = H256Zero, !.transactions = <<>>]

\* miner_loop: the match on operating_state and the ShutDown test after it.
MinerControl ==
    /\ miner.pc = "ctl"
    /\ LET turn == ControlTurn(miner, miner_ctl, "snapshot")
       IN  /\ turn.enabled
           /\ miner' = turn.thread
           /\ miner_ctl' = turn.chan
    /\ UNCHANGED <<chainVars, gossipVars, emitted, consumed, fbw, genVars>>

\* miner_loop: the snapshot of the tip under the blockchain lock (the state
\* and the difficulty are those stored with that block).
MinerSnapshot ==
    /\ miner.pc = "snapshot"
    /\ blockchain_lock = "free"
    /\ Len(emitted) < MaxMined
    /\ miner' = [miner EXCEPT !.pc = "collect", !.parent_hash = tip]
    /\ UNCHANGED <<chainVars, gossipVars, miner_ctl, emitted, consumed, fbw, genVars>>

\* miner_loop: the selection under the mempool lock.  A panic inside it
\* poisons the mempool mutex; with no transaction accepted the loop
\* continues at its head.
MinerCollect ==
    /\ miner.pc = "collect"
    /\ mempool_lock = "free"
    /\ \E order \in Orders(DOMAIN mempool) :
          LET sel == SelectTxns(map[miner.parent_hash].state,
                                [k \in 1 .. Len(order) |-> mempool[order[k]]], <<>>, <<>>)
          IN  IF sel.panicked
              THEN /\ miner' = [miner EXCEPT !.pc = "panicked"]
                   /\ mempool_lock' = "poisoned"
                   /\ UNCHANGED mempool
              ELSE /\ mempool' = RemoveHashes(mempool, sel.removal_hashes)
                   /\ miner' = IF sel.transactions = <<>> THEN MinerAtHead
                               ELSE [miner EXCEPT !.pc = "pow",
                                                  !.transactions = sel.transactions]
                   /\ UNCHANGED mempool_lock
    /\ UNCHANGED <<chainVars, blockchain_lock, gw, orphan_buffer, miner_ctl, emitted,
                   consumed, fbw, genVars>>

\* miner_loop: self.mempool.lock().unwrap() alone: the miner holds the
\* mempool guard and is about to iterate.
MinerLockMempool ==
    /\ miner.pc = "collect"
    /\ mempool_lock = "free"
    /\ miner' = [miner EXCEPT !.pc = "select"]
    /\ mempool_lock' = "miner"
    /\ UNCHANGED <<chainVars, mempool, blockchain_lock, gw, orphan_buffer, miner_ctl,
                   emitted, consumed, fbw, genVars>>

\* The mempool mutex after a selection whose guard lives on into the proof
\* of work.
MempoolGuardAfter_NoDrop(sel) ==
    IF sel.panicked THEN "poisoned"
    ELSE IF sel.transactions = <<>> THEN "free" ELSE "miner"

\* The mempool mutex after the selection: poisoned by a panic under the
\* guard, released by `continue` when no transaction is accepted and by
\* drop(mempool) otherwise.
MempoolGuardAfter(sel) == IF sel.panicked THEN "poisoned" ELSE "free"

\* miner_loop: the selection and the removal under the guard MinerLockMempool
\* took, up to the release of the guard.
MinerSelect ==
    /\ miner.pc = "select"
    /\ \E order \in Orders(DOMAIN mempool) :
          LET sel == SelectTxns(map[miner.parent_hash].state,
                                [k \in 1 .. Len(order) |-> mempool[order[k]]], <<>>, <<>>)
          IN  /\ mempool_lock' = MempoolGuardAfter(sel)
              /\ IF sel.panicked
                 THEN /\ miner' = [miner EXCEPT !.pc = "panicked"]
                      /\ UNCHANGED mempool
                 ELSE /\ mempool' = RemoveHashes(mempool, sel.removal_hashes)
                      /\ miner' = IF sel.transactions = <<>> THEN MinerAtHead
                                  ELSE [miner EXCEPT !.pc = "pow",
                                                     !.transactions = sel.transactions]
    /\ UNCHANGED <<chainVars, blockchain_lock, gw, orphan_buffer, miner_ctl, emitted,
                   consumed, fbw, genVars>>

\* miner_loop: the test of the while loop, self.blockchain.lock().tip() ==
\* parent_hash; when the tip has moved the attempt is dropped.
MinerPowCheck ==
    /\ miner.pc = "pow"
    /\ blockchain_lock = "free"
    /\ miner' = IF tip = miner.parent_hash THEN [miner EXCEPT !.pc = "hash"] ELSE MinerAtHead
    /\ UNCHANGED <<chainVars, gossipVars, miner_ctl, emitted, consumed, fbw, genVars>>

\* miner_loop: one body of the while loop: a nonce is drawn, the block
\* formed, and sent on finished_block_chan when its hash is within the
\* difficulty.
MinerPowHash ==
    /\ miner.pc = "hash"
    /\ \E nonce \in HeaderNonces :
          LET block == MkBlock(miner.parent_hash, nonce,
                               map[miner.parent_hash].block.header.difficulty, Now,
                               miner.transactions)
          IN  IF HashWithinTarget(block)
              THEN /\ emitted' = Append(emitted, block)
                   /\ miner' = MinerAtHead
              ELSE /\ miner' = [miner EXCEPT !.pc = "pow"]
                   /\ UNCHANGED emitted
    /\ UNCHANGED <<chainVars, gossipVars, miner_ctl, consumed, fbw, genVars>>

\* miner/worker.rs worker_loop: a block is read from the channel and
\* inserted under the blockchain lock; Err is a panic, Ok is followed by the
\* broadcast of the block's hash.
FinishedBlock ==
    /\ fbw.pc = "recv"
    /\ consumed < Len(emitted)
    /\ blockchain_lock = "free"
    /\ LET out == insert(map, tip, emitted[consumed + 1])
       IN  /\ map' = out.map
           /\ tip' = out.tip
           /\ fbw' = [pc |-> IF out.ret = Ok THEN "recv" ELSE "panicked", result |-> out.ret]
    /\ consumed' = consumed + 1
    /\ UNCHANGED <<arg, ret, gossipVars, miner, miner_ctl, emitted, genVars>>

\* worker_loop: the block is read and blockchain.lock().unwrap() panics on
\* the poisoned mutex.
FinishedBlockLockPanic ==
    /\ fbw.pc = "recv"
    /\ consumed < Len(emitted)
    /\ blockchain_lock = "poisoned"
    /\ consumed' = consumed + 1
    /\ fbw' = [fbw EXCEPT !.pc = "panicked"]
    /\ UNCHANGED <<chainVars, gossipVars, miner, miner_ctl, emitted, genVars>>

\* worker_loop: recv() fails once the miner thread has ended, its Sender
\* dropped, and the channel is empty; expect() ends the thread.
FinishedBlockDisconnected ==
    /\ fbw.pc = "recv"
    /\ consumed = Len(emitted)
    /\ miner.pc \in {"returned", "panicked"}
    /\ fbw' = [fbw EXCEPT !.pc = "disconnected"]
    /\ UNCHANGED <<chainVars, gossipVars, miner, miner_ctl, emitted, consumed, genVars>>

\* generator_loop: the match on operating_state and the ShutDown test.
GenControl ==
    /\ gen.pc = "ctl"
    /\ LET turn == ControlTurn(gen, gen_ctl, "tick")
       IN  /\ turn.enabled
           /\ gen' = turn.thread
           /\ gen_ctl' = turn.chan
    /\ UNCHANGED <<chainVars, gossipVars, minerVars, finished_txn, relay>>

\* generator_loop: one generation: the tip's state is read under the
\* blockchain lock, a seeded sender is drawn (a sender without balance, or
\* with less than 4, ends the turn), then another seeded account as
\* receiver and a value; the signed transaction goes to finished_txn_chan.
GenTick ==
    /\ gen.pc = "tick"
    /\ blockchain_lock = "free"
    /\ Len(finished_txn) < MaxPendingTxs
    /\ Cardinality(DOMAIN mempool) < MaxPoolTxs
    /\ \E sender_seed \in Seeds :
          LET sender_info == map[tip].state[AddressOf(PublicKey(sender_seed))]
              max_value   == sender_info[2] \div 2
          IN  IF sender_info[2] = 0 \/ max_value <= 1
              THEN UNCHANGED finished_txn
              ELSE \E receiver_seed \in Seeds \ {sender_seed}, value \in GenValues(max_value) :
                      finished_txn' =
                          Append(finished_txn,
                                 MkTxn(sender_seed, AddressOf(PublicKey(receiver_seed)),
                                       sender_info[1] + 1, value, sender_seed))
    /\ gen' = [gen EXCEPT !.pc = "ctl"]
    /\ UNCHANGED <<chainVars, gossipVars, minerVars, gen_ctl, relay>>

\* generate_transactions: a transaction is read from the channel and stored
\* in the mempool under its hash, then its hash is broadcast.
Relay ==
    /\ relay.pc = "recv"
    /\ finished_txn # <<>>
    /\ mempool_lock = "free"
    /\ mempool' = Put(mempool, HashTxn(Head(finished_txn)), Head(finished_txn))
    /\ finished_txn' = Tail(finished_txn)
    /\ UNCHANGED <<chainVars, blockchain_lock, mempool_lock, gw, orphan_buffer, minerVars,
                   gen, gen_ctl, relay>>

\* generate_transactions: recv() fails once the generator thread has ended
\* and the channel is empty.
RelayDisconnected ==
    /\ relay.pc = "recv"
    /\ finished_txn = <<>>
    /\ gen.pc \in {"returned", "panicked"}
    /\ relay' = [relay EXCEPT !.pc = "disconnected"]
    /\ UNCHANGED <<chainVars, gossipVars, minerVars, gen, gen_ctl, finished_txn>>

\* The Ok arm after the insert, with the mempool mutex poisoned:
\* mempool.lock().unwrap() panics and the blockchain guard the worker holds
\* is dropped in the unwinding, which poisons the blockchain mutex.
BlocksMempoolPanic(w) ==
    /\ gw[w].pc = "mempool"
    /\ mempool_lock = "poisoned"
    /\ gw' = [gw EXCEPT ![w] = [@ EXCEPT !.pc = "panicked"]]
    /\ blockchain_lock' = "poisoned"
    /\ UNCHANGED <<chainVars, mempool, mempool_lock, orphan_buffer, minerVars, genVars>>

\* A message whose handler starts with lock().unwrap() on a poisoned mutex.
HandlePoisoned(w, msg) ==
    /\ gw[w].pc = "recv"
    /\ IF msg.type = "Transactions" THEN mempool_lock = "poisoned"
       ELSE blockchain_lock = "poisoned"
    /\ gw' = [gw EXCEPT ![w] = [IdleWorker EXCEPT !.pc = "panicked", !.msg = msg]]
    /\ UNCHANGED <<chainVars, mempool, blockchain_lock, mempool_lock, orphan_buffer,
                   minerVars, genVars>>

(***************************************************************************)
(* The environment of a node: the holders of the Handles (the HTTP API     *)
(* among them) send control signals, peers send blocks and transactions.   *)
(***************************************************************************)
\* The signals of the miner's Handle, of pacing 0 .. MaxLambda, and of the
\* generator's Handle, of pacing 0 .. MaxTheta.
MinerSignals == {Start(i) : i \in 0 .. MaxLambda} \cup {Update, Exit}

GenSignals == {Start(i) : i \in 0 .. MaxTheta} \cup {Update, Exit}

\* Handle::start, Handle::update, Handle::exit of the miner: send() queues
\* the signal as long as the miner thread holds the Receiver.
SendMinerSignal ==
    /\ miner.pc \notin {"returned", "panicked"}
    /\ Len(miner_ctl) < MaxSignals
    /\ \E signal \in MinerSignals : miner_ctl' = Append(miner_ctl, signal)
    /\ UNCHANGED <<chainVars, gossipVars, miner, emitted, consumed, fbw, genVars>>

\* Handle::start, Handle::update, Handle::exit of the generator.
SendGenSignal ==
    /\ gen.pc \notin {"returned", "panicked"}
    /\ Len(gen_ctl) < MaxSignals
    /\ \E signal \in GenSignals : gen_ctl' = Append(gen_ctl, signal)
    /\ UNCHANGED <<chainVars, gossipVars, minerVars, gen, finished_txn, relay>>

NodeWorkers == {"w1"}

\* Messages of the peers of a node: one valid empty block on a stored
\* block, or up to MaxMsgTxs of the transactions of NetTxs.
NodeMessages ==
    {Blocks(<<b>>) : b \in NetFirstChildren}
    \cup {Transactions(transactions) : transactions \in TxMsgLists}

NodeRecvBlocks ==
    \E w \in NodeWorkers :
        /\ gw[w].pc = "recv"
        /\ Cardinality(DOMAIN map) <= MaxNodeBlocks
        /\ \E b \in NetFirstChildren : HandleBlocks(w, <<b>>)

NodeRecvTransactions ==
    \E w \in NodeWorkers :
        /\ gw[w].pc = "recv"
        /\ \E transactions \in TxMsgLists : HandleTransactions(w, transactions)

NodeRecvGetBlocks ==
    \E w \in NodeWorkers :
        /\ gw[w].pc = "recv"
        /\ \E h \in DOMAIN map : HandleGetBlocks(w, <<h>>)

NodeRecvPoisoned ==
    \E w \in NodeWorkers :
        /\ gw[w].pc = "recv"
        /\ \E msg \in NodeMessages : HandlePoisoned(w, msg)

NodeBlocksMempool == \E w \in NodeWorkers : BlocksMempool(w)

NodeBlocksMempoolPanic == \E w \in NodeWorkers : BlocksMempoolPanic(w)

NodeGossipNext == \E w \in NodeWorkers : GossipNext(w)

(***************************************************************************)
(* SpecMining: a node with peers whose miner is driven through its Handle; *)
(* the gossip worker receives Blocks, GetBlocks and Transactions; the      *)
(* generator is never started.                                             *)
(***************************************************************************)
NextMining ==
    \/ SendMinerSignal
    \/ MinerControl
    \/ MinerSnapshot
    \/ MinerCollect
    \/ MinerPowCheck
    \/ MinerPowHash
    \/ FinishedBlock
    \/ FinishedBlockLockPanic
    \/ FinishedBlockDisconnected
    \/ NodeRecvBlocks
    \/ NodeRecvGetBlocks
    \/ NodeRecvTransactions
    \/ NodeRecvPoisoned
    \/ NodeBlocksMempool
    \/ NodeBlocksMempoolPanic
    \/ NodeGossipNext

SpecMining == Init /\ [][NextMining]_vars

(***************************************************************************)
(* SpecSelect: a node whose peers send transactions, one a message, and    *)
(* whose miner is driven through its Handle; no block comes from a peer    *)
(* and the generator is never started.                                     *)
(***************************************************************************)
\* Well-signed transactions of the peers: two transfers of the funded
\* account with the same nonce, a transfer of the second account that its
\* balance covers only once it has received, one of value 0, and a transfer
\* of the key genesis does not know.
SelectTxs ==
    {MkTxn(0, AddressOf(PublicKey(1)), 1, 4000, 0),
     MkTxn(0, AddressOf(PublicKey(2)), 1, 7000, 0),
     MkTxn(1, AddressOf(PublicKey(2)), 1, 3000, 1),
     MkTxn(2, AddressOf(PublicKey(0)), 1, 0, 2),
     MkTxn(Outsider, AddressOf(PublicKey(0)), 1, 4000, Outsider)}

SelectRecvTransaction ==
    \E w \in NodeWorkers :
        /\ gw[w].pc = "recv"
        /\ Cardinality(DOMAIN mempool) < MaxSelectPool
        /\ \E txn \in SelectTxs : HandleTransactions(w, <<txn>>)

NextSelect ==
    \/ SendMinerSignal
    \/ MinerControl
    \/ MinerSnapshot
    \/ MinerCollect
    \/ MinerPowCheck
    \/ MinerPowHash
    \/ FinishedBlock
    \/ FinishedBlockDisconnected
    \/ SelectRecvTransaction
    \/ NodeRecvPoisoned
    \/ NodeGossipNext

SpecSelect == Init /\ [][NextSelect]_vars

(***************************************************************************)
(* SpecLocks: the node of SpecMining with the miner's mempool guard taken  *)
(* and released in steps of their own.                                     *)
(***************************************************************************)
NextLocks ==
    \/ SendMinerSignal
    \/ MinerControl
    \/ MinerSnapshot
    \/ MinerLockMempool
    \/ MinerSelect
    \/ MinerPowCheck
    \/ MinerPowHash
    \/ FinishedBlock
    \/ FinishedBlockLockPanic
    \/ FinishedBlockDisconnected
    \/ NodeRecvBlocks
    \/ NodeRecvTransactions
    \/ NodeRecvPoisoned
    \/ NodeBlocksMempool
    \/ NodeBlocksMempoolPanic
    \/ NodeGossipNext

SpecLocks == Init /\ [][NextLocks]_vars

(***************************************************************************)
(* SpecPool: a node with peers whose generator is driven through its       *)
(* Handle; the miner is never started.                                     *)
(***************************************************************************)
NextPool ==
    \/ SendGenSignal
    \/ GenControl
    \/ GenTick
    \/ Relay
    \/ RelayDisconnected
    \/ NodeRecvTransactions
    \/ NodeGossipNext

SpecPool == Init /\ [][NextPool]_vars

(***************************************************************************)
(* SpecControl: a node without peers, miner and generator both driven      *)
(* through their Handles.                                                  *)
(***************************************************************************)
NextControl ==
    \/ SendMinerSignal
    \/ SendGenSignal
    \/ MinerControl
    \/ MinerSnapshot
    \/ MinerCollect
    \/ MinerPowCheck
    \/ MinerPowHash
    \/ FinishedBlock
    \/ FinishedBlockDisconnected
    \/ GenControl
    \/ GenTick
    \/ Relay
    \/ RelayDisconnected

SpecControl == Init /\ [][NextControl]_vars

(***************************************************************************)
(* Properties.                                                             *)
(***************************************************************************)
\* A step that is a call of insert (Insert sets ret, Return clears it).
IsCall == ret = NoCall /\ ret' # NoCall

Height(h) == map[h].height

\* ---- C1 ----
TipIsMaximal ==
    /\ tip \in DOMAIN map
    /\ \A h \in DOMAIN map : Height(h) <= Height(tip)

TipStep ==
    (IsCall /\ ret' = Ok) =>
        LET h == HashBlock(arg')
        IN  /\ h \in DOMAIN map'
            /\ map'[h].height > Height(tip)  => tip' = h
            /\ map'[h].height <= Height(tip) => tip' = tip

\* C1: the tip always names a stored node of maximal height; an accepted
\* block strictly taller than the tip becomes the tip, and an accepted block
\* of equal or lower height leaves the tip as it was (first seen wins ties).
C1_TipMaximalFirstSeen == [] TipIsMaximal /\ [][TipStep]_vars

\* An accepted block as tall as the tip, which is not the tip.
C1_Witness ==
    /\ ret = Ok
    /\ HashBlock(arg) \in DOMAIN map
    /\ HashBlock(arg) # tip
    /\ Height(HashBlock(arg)) = Height(tip)

\* ---- C2 ----
\* C2: the map holds exactly one node of height 0, the genesis node, and
\* every other node has its parent in the map, one level above it.
C2_TreeShape ==
    /\ {h \in DOMAIN map : Height(h) = 0} = {HashBlock(GenesisBlock)}
    /\ \A h \in DOMAIN map :
          h # HashBlock(GenesisBlock) =>
             /\ get_parent(map[h].block) \in DOMAIN map
             /\ Height(h) = Height(get_parent(map[h].block)) + 1

\* A fork below a node of height 2.
C2_Witness ==
    /\ \E g, h \in DOMAIN map :
          /\ g # h
          /\ Height(g) = 1 /\ Height(h) = 1
    /\ \E h \in DOMAIN map : Height(h) = 2

\* ---- C3 ----
\* C3: insert returns Err(true) whenever the block's parent is not in the
\* map, also when the block's own hash is in the map, and Err(false) whenever
\* the parent is in the map and the block's hash is too.
C3_ParentCheckThenDuplicate ==
    [][IsCall =>
          /\ get_parent(arg') \notin DOMAIN map => ret' = MissingParent
          /\ (get_parent(arg') \in DOMAIN map /\ HashBlock(arg') \in DOMAIN map)
                => ret' = Invalid]_vars

\* A stored block whose parent is not stored (the genesis block) was passed
\* to insert and the call returned Err(true).
C3_Witness ==
    /\ ret = MissingParent
    /\ HashBlock(arg) \in DOMAIN map
    /\ Cardinality(DOMAIN map) > 1

\* ---- C4 ----
\* C4: a call of insert that returns an error leaves map, tip and the
\* longest chain as they were.
C4_ErrorLeavesChainUnchanged ==
    [][(IsCall /\ ret' \in {MissingParent, Invalid}) =>
          /\ map' = map
          /\ tip' = tip
          /\ all_blocks_in_longest_chain(map', tip')
                = all_blocks_in_longest_chain(map, tip)]_vars

\* A new block on a stored parent was refused for its transaction, on a
\* chain that has grown.
C4_Witness ==
    /\ ret = Invalid
    /\ get_parent(arg) \in DOMAIN map
    /\ HashBlock(arg) \notin DOMAIN map
    /\ Len(arg.content.transactions) > 0
    /\ Len(all_blocks_in_longest_chain(map, tip)) > 2

\* ---- C5 ----
AllSeeds == Seeds \cup {Outsider}

\* The four checks of the claim, on the parent's state.
SignedByOwner(txn) ==
    \E s \in AllSeeds :
        /\ PublicKey(s) = txn.public_key
        /\ txn.signature = sign(txn.transaction, s)

PassesChecks(parent_state, txn) ==
    /\ SignedByOwner(txn)
    /\ AddressOf(txn.public_key) \in DOMAIN parent_state
    /\ txn.transaction.account_nonce = parent_state[AddressOf(txn.public_key)][1] + 1
    /\ txn.transaction.value <= parent_state[AddressOf(txn.public_key)][2]

\* C5: for a new block on a stored parent, insert returns Ok and stores the
\* block when every transaction passes the four checks against the parent's
\* state, and returns Err(false) and stores nothing otherwise.
C5_TransactionChecks ==
    [][(/\ IsCall
        /\ get_parent(arg') \in DOMAIN map
        /\ HashBlock(arg') \notin DOMAIN map) =>
          LET parent_state == map[get_parent(arg')].state
              txs == arg'.content.transactions
          IN  IF \A i \in 1 .. Len(txs) : PassesChecks(parent_state, txs[i])
              THEN ret' = Ok /\ HashBlock(arg') \in DOMAIN map'
              ELSE ret' = Invalid /\ map' = map /\ tip' = tip]_vars

\* A refused block of two transactions: the first passes, the second fails
\* on the balance alone.
C5_Witness ==
    /\ ret = Invalid
    /\ get_parent(arg) \in DOMAIN map
    /\ HashBlock(arg) \notin DOMAIN map
    /\ Len(arg.content.transactions) = 2
    /\ LET parent_state == map[get_parent(arg)].state
           t1 == arg.content.transactions[1]
           t2 == arg.content.transactions[2]
       IN  /\ PassesChecks(parent_state, t1)
           /\ SignedByOwner(t2)
           /\ AddressOf(t2.public_key) \in DOMAIN parent_state
           /\ t2.transaction.account_nonce = parent_state[AddressOf(t2.public_key)][1] + 1
           /\ t2.transaction.value > parent_state[AddressOf(t2.public_key)][2]

(***************************************************************************)
(* The account rules the state of a node is held against.                  *)
(***************************************************************************)
\* The hashes from genesis down to h.
PathTo(h) == Reverse(WalkUp(map, h, <<>>))

TxsOf(h) == map[h].block.content.transactions

ParentState(h) == map[get_parent(map[h].block)].state

NonGenesis == (DOMAIN map) \ {HashBlock(GenesisBlock)}

\* One transfer applied to the state the previous one left: the sender's
\* nonce goes up by one and its balance down by the value, the receiver's
\* balance goes up by the value, a new receiver starting from (0, 0).
SeqApplyTxn(state, txn) ==
    LET s == AddressOf(txn.public_key)
        r == txn.transaction.receiver
        v == txn.transaction.value
        debited == Put(state, s, <<state[s][1] + 1, state[s][2] - v>>)
    IN  IF r \in DOMAIN debited
        THEN Put(debited, r, <<debited[r][1], debited[r][2] + v>>)
        ELSE Put(debited, r, <<0, v>>)

RECURSIVE SeqApply(_, _)
SeqApply(state, txs) ==
    IF txs = <<>> THEN state ELSE SeqApply(SeqApplyTxn(state, Head(txs)), Tail(txs))

\* The transactions of the blocks of a path, in block order.
RECURSIVE PathTxs(_)
PathTxs(path) ==
    IF path = <<>> THEN <<>> ELSE TxsOf(Head(path)) \o PathTxs(Tail(path))

SentBy(a, txs) == SelectSeq(txs, LAMBDA t : AddressOf(t.public_key) = a)

\* ---- C6 ----
\* C6: the state stored with a node is the state of its parent with the
\* block's transactions applied one after another, each to the state the
\* previous one left (stated for blocks that pay known addresses only).
C6_StateIsSequentialApplication ==
    \A h \in NonGenesis :
        (\A i \in 1 .. Len(TxsOf(h)) :
             TxsOf(h)[i].transaction.receiver \in DOMAIN ParentState(h))
        => map[h].state = SeqApply(ParentState(h), TxsOf(h))

\* ---- C7 ----
\* C7: in the state of every node each address's nonce is the number of
\* transactions it sent in the blocks from genesis to that node, and no
\* balance is below zero.
C7_NonceCountsSentTransactions ==
    \A h \in DOMAIN map :
        \A a \in DOMAIN map[h].state :
            /\ map[h].state[a][1] = Len(SentBy(a, PathTxs(PathTo(h))))
            /\ map[h].state[a][2] >= 0

\* ---- C8 ----
\* C8: on the path from genesis to any stored block no signed transaction is
\* in two blocks, and the account nonces of each sender's transactions along
\* the path are 1, 2, 3, ... in order.
C8_NoDoubleSpendNoNonceSkip ==
    \A h \in DOMAIN map :
        LET path == PathTo(h)
            all  == PathTxs(path)
        IN  /\ \A m, n \in 1 .. Len(path) :
                  m # n =>
                     \A i \in 1 .. Len(TxsOf(path[m])), j \in 1 .. Len(TxsOf(path[n])) :
                         HashTxn(TxsOf(path[m])[i]) # HashTxn(TxsOf(path[n])[j])
            /\ \A k \in 1 .. Len(all) :
                  LET mine == SentBy(AddressOf(all[k].public_key), all)
                  IN  \A q \in 1 .. Len(mine) : mine[q].transaction.account_nonce = q

\* ---- C9 ----
\* C9: when an accepted block pays an address the parent's state does not
\* hold, the node's state holds that address, with nonce 0 and the value as
\* its balance (when the block pays it once).
C9_NewReceiverCreated ==
    \A h \in NonGenesis :
        \A i \in 1 .. Len(TxsOf(h)) :
            LET r == TxsOf(h)[i].transaction.receiver
            IN  r \notin DOMAIN ParentState(h) =>
                   /\ r \in DOMAIN map[h].state
                   /\ (\A j \in 1 .. Len(TxsOf(h)) :
                          j # i => TxsOf(h)[j].transaction.receiver # r)
                        => map[h].state[r] = <<0, TxsOf(h)[i].transaction.value>>

\* ---- C10 ----
\* C10: no stored block holds two transactions of the same sender.
C10_OneTransactionPerSender ==
    \A h \in DOMAIN map :
        \A i, j \in 1 .. Len(TxsOf(h)) :
            i # j => AddressOf(TxsOf(h)[i].public_key) # AddressOf(TxsOf(h)[j].public_key)

\* ---- C11 ----
LongestChain == all_blocks_in_longest_chain(map, tip)

\* C11: all_blocks_in_longest_chain returns a sequence of height(tip) + 1
\* hashes of stored blocks that starts at the genesis hash, ends at the tip
\* and in which every element is the parent of the next one; a stored block
\* that is not an ancestor of the tip is not listed.
C11_LongestChainFromGenesisToTip ==
    LET chain == LongestChain
    IN  /\ Len(chain) = Height(tip) + 1
        /\ chain[1] = HashBlock(GenesisBlock)
        /\ chain[Len(chain)] = tip
        /\ \A k \in 1 .. Len(chain) : chain[k] \in DOMAIN map /\ Height(chain[k]) = k - 1
        /\ \A k \in 1 .. (Len(chain) - 1) : chain[k] = get_parent(map[chain[k + 1]].block)

\* A fork as in insert_four_with_fork: the chain has at least three blocks
\* and a stored block as tall as the tip's parent is not on it.
C11_Witness ==
    LET chain == LongestChain
    IN  /\ Len(chain) >= 3
        /\ \E h \in DOMAIN map :
               /\ Height(h) = Height(tip) - 1
               /\ \A k \in 1 .. Len(chain) : chain[k] # h

\* ---- C12 ----
\* The worker has taken msg and its handling has come to a stop: it is back
\* at the head of its loop, or it is in the Blocks loop for good.
Stopped(w) == gw[w].pc \in {"done", "spin"}

\* C12: once a worker's handling of Blocks(<<b>>) has stopped, for a block b
\* that generate_random_block built on a stored block and that was not
\* stored before, b is stored and the worker has broadcast
\* NewBlockHashes(<<hash(b)>>).
C12_RandomBlockInsertedAndAnnounced ==
    \A w \in Workers :
        LET m == gw[w].msg
            b == m.body[1]
        IN  (/\ Stopped(w)
             /\ m.type = "Blocks"
             /\ Len(m.body) = 1
             /\ \E n \in HeaderNonces : b = generate_random_block(get_parent(b), n, 0)
             /\ get_parent(b) \in DOMAIN map
             /\ HashBlock(b) \in DOMAIN map => gw[w].new_block_hashes = <<HashBlock(b)>>)
            => /\ gw[w].pc = "done"
               /\ HashBlock(b) \in DOMAIN map
               /\ gw[w].bcast = <<NewBlockHashes(<<HashBlock(b)>>)>>

\* ---- C13 ----
\* The transactions of block pass insert's checks against the state stored
\* with its parent.
TxnsValidOnParent(block) ==
    /\ get_parent(block) \in DOMAIN map
    /\ \A k \in 1 .. Len(block.content.transactions) :
          TxnValid(map[get_parent(block)].state, block.content.transactions[k])

\* C13: (a) when a worker is done with Blocks(<<b>>) for a block b that meets
\* its target and whose parent is not stored, b is the last orphan held
\* under its parent's hash and b is not stored; (b) when a worker is done
\* with Blocks(<<B1>>) and its worklist is <<B1, B2>>, B2 being the one
\* orphan that waited for B1, with B1 and B2 valid, then both are stored,
\* the buffer has no entry for hash(B1), the broadcast names B1 then B2, and
\* B2 is the tip when B1 was built on a block no lower than the rest.
C13_OrphanReattached ==
    \A w \in Workers :
        LET m  == gw[w].msg
            b  == m.body[1]
            wl == gw[w].blocks
            ob == orphan_buffer[w]
        IN  (gw[w].pc = "done" /\ m.type = "Blocks" /\ Len(m.body) = 1
                /\ HashWithinTarget(b)) =>
               /\ get_parent(b) \notin DOMAIN map =>
                     /\ get_parent(b) \in DOMAIN ob
                     /\ ob[get_parent(b)][Len(ob[get_parent(b)])] = b
                     /\ HashBlock(b) \notin DOMAIN map
               /\ (/\ Len(wl) = 2
                   /\ get_parent(wl[2]) = HashBlock(b)
                   /\ HashWithinTarget(wl[2])
                   /\ TxnsValidOnParent(b)
                   /\ TxnsValidOnParent(wl[2])) =>
                     /\ HashBlock(b) \in DOMAIN map
                     /\ HashBlock(wl[2]) \in DOMAIN map
                     /\ HashBlock(b) \notin DOMAIN ob
                     /\ gw[w].bcast = <<NewBlockHashes(<<HashBlock(b), HashBlock(wl[2])>>)>>
                     /\ (\A h \in (DOMAIN map) \ {HashBlock(b), HashBlock(wl[2])} :
                            Height(h) <= Height(get_parent(b)))
                          => tip = HashBlock(wl[2])

\* The second half of the scenario: B1, built on genesis, has arrived after
\* its child B2 and both are stored, B2 as the tip.
C13_Witness ==
    LET m  == gw[NetWorker].msg
        wl == gw[NetWorker].blocks
    IN  /\ gw[NetWorker].pc = "done"
        /\ m.type = "Blocks"
        /\ Len(m.body) = 1
        /\ Len(wl) = 2
        /\ get_parent(wl[2]) = HashBlock(m.body[1])
        /\ get_parent(m.body[1]) = HashBlock(GenesisBlock)
        /\ tip = HashBlock(wl[2])
        /\ HashBlock(m.body[1]) \notin DOMAIN orphan_buffer[NetWorker]

\* ---- C14 ----
\* A step in which worker w takes a message of the given type.
Takes(w, type) == gw[w].pc = "recv" /\ gw'[w].pc # "recv" /\ gw'[w].msg.type = type

IsUnknown(h) == h \notin DOMAIN map

NewBlockHashesReply ==
    \A w \in Workers :
        (gw[w].pc = "done" /\ gw[w].msg.type = "NewBlockHashes") =>
            LET missing == SelectSeq(gw[w].msg.body, IsUnknown)
            IN  /\ gw[w].reply = IF missing = <<>> THEN <<>> ELSE <<GetBlocks(missing)>>
                /\ gw[w].bcast = <<>>

NewBlockHashesStep ==
    \A w \in Workers :
        Takes(w, "NewBlockHashes") =>
            /\ gw'[w].pc = "done"
            /\ UNCHANGED <<map, tip, mempool, orphan_buffer>>

\* C14: a worker done with NewBlockHashes(hs) has written to the peer one
\* GetBlocks listing the hashes of hs that are not stored, in their order in
\* hs, or nothing when all are stored; taking the message changes neither
\* the blockchain nor the mempool nor any orphan buffer.
C14_NewBlockHashesAsksForUnknown == [] NewBlockHashesReply /\ [][NewBlockHashesStep]_vars

\* A stored hash followed by one that is not stored, answered with the
\* second alone.
C14_Witness ==
    LET m == gw[NetWorker].msg
    IN  /\ gw[NetWorker].pc = "done"
        /\ m.type = "NewBlockHashes"
        /\ Len(m.body) = 2
        /\ m.body[1] \in DOMAIN map
        /\ m.body[2] \notin DOMAIN map
        /\ gw[NetWorker].reply = <<GetBlocks(<<m.body[2]>>)>>

\* ---- C15 ----
IsKnown(h) == h \in DOMAIN map

GetBlocksReply ==
    \A w \in Workers :
        (gw[w].pc = "done" /\ gw[w].msg.type = "GetBlocks") =>
            LET wanted == SelectSeq(gw[w].msg.body, IsKnown)
            IN  /\ wanted = <<>> => gw[w].reply = <<>>
                /\ wanted # <<>> =>
                      /\ Len(gw[w].reply) = 1
                      /\ gw[w].reply[1].type = "Blocks"
                      /\ Len(gw[w].reply[1].body) = Len(wanted)
                      /\ \A k \in 1 .. Len(wanted) :
                            /\ HashBlock(gw[w].reply[1].body[k]) = wanted[k]
                            /\ gw[w].reply[1].body[k] = map[wanted[k]].block
                /\ gw[w].msg.body = <<tip>> =>
                      /\ Len(gw[w].reply[1].body) = 1
                      /\ HashBlock(gw[w].reply[1].body[1]) = tip
                /\ gw[w].bcast = <<>>

GetBlocksStep ==
    \A w \in Workers :
        Takes(w, "GetBlocks") =>
            /\ gw'[w].pc = "done"
            /\ UNCHANGED <<map, tip, mempool, orphan_buffer>>

\* C15: a worker done with GetBlocks(hs) has written to the peer one Blocks
\* message holding, for each stored hash of hs in the order of hs, the
\* stored block, which hashes to the hash asked for, or nothing when no hash
\* of hs is stored; GetBlocks(<<tip>>) is answered with the one block that
\* hashes to the tip.
C15_GetBlocksServesStored == [] GetBlocksReply /\ [][GetBlocksStep]_vars

\* Two different stored hashes asked for, the tip first.
C15_Witness ==
    LET m == gw[NetWorker].msg
    IN  /\ gw[NetWorker].pc = "done"
        /\ m.type = "GetBlocks"
        /\ Len(m.body) = 2
        /\ m.body[1] = tip
        /\ m.body[2] = HashBlock(GenesisBlock)
        /\ tip # HashBlock(GenesisBlock)
        /\ Len(gw[NetWorker].reply) = 1
        /\ Len(gw[NetWorker].reply[1].body) = 2

(***************************************************************************)
(* Mempool admission                                                       *)
(***************************************************************************)
MempoolEntriesValid ==
    \A h \in DOMAIN mempool :
        /\ h = HashTxn(mempool[h])
        /\ verify(mempool[h].transaction, mempool[h].public_key, mempool[h].signature)

Admissible(txn) ==
    /\ HashTxn(txn) \notin DOMAIN mempool
    /\ verify(txn.transaction, txn.public_key, txn.signature)

TransactionsStep ==
    \A w \in Workers :
        Takes(w, "Transactions") =>
            LET ts       == gw'[w].msg.body
                admitted == {ts[k] : k \in {j \in 1 .. Len(ts) : Admissible(ts[j])}}
                hashes   == {HashTxn(t) : t \in admitted}
                bcast    == gw'[w].bcast
            IN  /\ DOMAIN mempool' = DOMAIN mempool \cup hashes
                /\ \A t \in admitted : mempool'[HashTxn(t)] = t
                /\ \A h \in DOMAIN mempool : mempool'[h] = mempool[h]
                /\ IF hashes = {} THEN bcast = <<>>
                   ELSE /\ Len(bcast) = 1
                        /\ bcast[1].type = "NewTransactionHashes"
                        /\ Len(bcast[1].body) = Cardinality(hashes)
                        /\ {bcast[1].body[k] : k \in 1 .. Len(bcast[1].body)} = hashes

\* C16: every mempool entry is keyed by the hash of its transaction and its
\* signature verifies against its public_key, whether a Transactions message
\* or the generator's relay stored it; a Transactions message adds exactly
\* its transactions that verify and whose hash the mempool lacked, and the
\* worker broadcasts one NewTransactionHashes with exactly their hashes, or
\* nothing when none was added.
C16_MempoolAdmission == [] MempoolEntriesValid /\ [][TransactionsStep]_vars

\* The mempool holds a transaction of the generator when a Transactions
\* message brings a well-signed transaction and a badly signed one: the
\* first is added and announced alone.
C16_Witness ==
    LET m == gw[NetWorker].msg
    IN  /\ gw[NetWorker].pc = "done"
        /\ m.type = "Transactions"
        /\ Len(m.body) = 2
        /\ verify(m.body[1].transaction, m.body[1].public_key, m.body[1].signature)
        /\ ~ verify(m.body[2].transaction, m.body[2].public_key, m.body[2].signature)
        /\ gw[NetWorker].bcast = <<NewTransactionHashes(<<HashTxn(m.body[1])>>)>>
        /\ HashTxn(m.body[1]) \in DOMAIN mempool
        /\ \E h \in DOMAIN mempool : mempool[h] \notin NetTxs

(***************************************************************************)
(* The miner and the finished-block worker                                 *)
(***************************************************************************)
\* C17: the blocks the miner has sent on the finished-block channel form a
\* chain in the order sent: the parent of each is the hash of the block sent
\* just before it.
C17_EmittedBlocksChain ==
    \A k \in 1 .. Len(emitted) - 1 : emitted[k + 1].header.parent = HashBlock(emitted[k])

\* Every block read from the finished-block channel went through insert.
FinishedBlocksInserted ==
    \A k \in 1 .. consumed : HashBlock(emitted[k]) \in DOMAIN map

\* C18: the finished-block worker's insert has returned Ok for every block
\* it has read from the channel, and the worker has not panicked.
C18_FinishedBlocksInsertedOk ==
    /\ fbw.result \in {NoCall, Ok}
    /\ fbw.pc # "panicked"
    /\ FinishedBlocksInserted

(***************************************************************************)
(* The control signals                                                     *)
(***************************************************************************)
\* The step takes signal from the head of the control channel chan.
Reads(chan, signal) == chan # <<>> /\ Head(chan) = signal /\ chan' = Tail(chan)

UpdateKeeps(thread, chan) ==
    Reads(chan, Update) =>
        /\ thread'.operating_state = thread.operating_state
        /\ thread'.pc # "panicked"

\* C19: a step of the miner or of the generator that reads Update leaves the
\* operating state, pacing parameter included, as it was, and the thread
\* goes on running.
C19_UpdateIsNoOp ==
    [][UpdateKeeps(miner, miner_ctl) /\ UpdateKeeps(gen, gen_ctl)]_vars

ExitShutsDown(thread, chan) ==
    Reads(chan, Exit) =>
        /\ thread.operating_state.mode \in {"Paused", "Run"}
        /\ thread'.operating_state = ShutDown
        /\ thread'.pc \in {"ctl", "returned"}

StartRuns(thread, chan) ==
    \A x \in 0 .. MaxTheta :
        Reads(chan, Start(x)) =>
            /\ thread.operating_state.mode \in {"Paused", "Run"}
            /\ thread'.operating_state = Run(x)

\* A thread in ShutDown only returns, and reads no signal.
ShutDownAbsorbs(thread, chan) ==
    thread.operating_state = ShutDown =>
        /\ thread' \in {thread, [thread EXCEPT !.pc = "returned"]}
        /\ chan' = chan \/ Len(chan') > Len(chan)

ShutDownAtHead ==
    /\ miner.operating_state = ShutDown => miner.pc \in {"ctl", "returned"}
    /\ gen.operating_state = ShutDown => gen.pc \in {"ctl", "returned"}

ShutDownStep ==
    /\ ExitShutsDown(miner, miner_ctl) /\ ExitShutsDown(gen, gen_ctl)
    /\ StartRuns(miner, miner_ctl) /\ StartRuns(gen, gen_ctl)
    /\ ShutDownAbsorbs(miner, miner_ctl) /\ ShutDownAbsorbs(gen, gen_ctl)
    /\ miner.operating_state = ShutDown =>
          /\ emitted' = emitted
          /\ DOMAIN mempool \subseteq DOMAIN mempool'
    /\ gen.operating_state = ShutDown => Len(finished_txn') <= Len(finished_txn)

\* C20: a step of the miner or of the generator that reads Exit, in Paused
\* or in Run, sets ShutDown and leaves the thread at the head of its loop or
\* returned; a thread in ShutDown is at the head of its loop or returned, its
\* only step is the return, it reads no signal sent to it, and while the
\* miner is in ShutDown no block is sent and no mempool entry removed, while
\* the generator is in ShutDown no transaction is sent; a step that reads
\* Start(x) sets Run(x).
C20_ShutDownAbsorbing == [] ShutDownAtHead /\ [][ShutDownStep]_vars

\* The generator has sent a transaction, which the relay has stored, and
\* returned on an Exit read in Run; the miner has returned on an Exit read in
\* Paused, and a Start sent to it before it returned stays unread, the
\* transaction stays in the mempool and no block is sent.
C20_Witness ==
    /\ gen.pc = "returned"
    /\ gen.operating_state = ShutDown
    /\ mempool # EmptyMap
    /\ miner.pc = "returned"
    /\ miner.operating_state = ShutDown
    /\ miner_ctl = <<Start(0)>>
    /\ emitted = <<>>

(***************************************************************************)
(* Merkle proofs                                                           *)
(***************************************************************************)
\* A proof was asked and verified.
MerkleReturned == ret # NoCall /\ "data" \in DOMAIN arg

\* ceil(log2 n)
CeilLog2(n) == log2(next_power_of_two(n))

\* C23: for data of n >= 1 items and an index i < n, proof(i) returns a
\* proof of ceil(log2 n) hashes and verify accepts it for the item's hash,
\* the index and n against the root.
C23_MerkleRoundTrip ==
    (MerkleReturned /\ arg.index < Len(arg.data)) =>
        /\ ~ arg.proof.panic
        /\ Len(arg.proof.value) = CeilLog2(Len(arg.data))
        /\ arg.verified = Returns(TRUE)

\* C24: for data of n >= 0 items, proof(i) is empty for every index i >= n
\* and verify with an index i >= n is false.
C24_MerkleOutOfBounds ==
    (MerkleReturned /\ arg.index >= Len(arg.data)) =>
        /\ arg.proof = Returns(<<>>)
        /\ arg.verified = Returns(FALSE)

(***************************************************************************)
(* The two mutexes.                                                        *)
(***************************************************************************)
\* ---- C21 ----
Threads == Workers \cup {"miner", "fbw", "gen", "relay"}

\* The mutexes whose guard thread t holds.
Holds(t) ==
    {l \in {"blockchain", "mempool"} :
        (IF l = "blockchain" THEN blockchain_lock ELSE mempool_lock) = t}

\* The mutex thread t asks for with its next step: the miner at its
\* snapshot and at the test of the proof-of-work loop, the generator at its
\* tick and the finished-block worker with a block in hand ask for the
\* blockchain; the miner before its selection, the relay with a transaction
\* in hand and a gossip worker in the Ok arm of its Blocks handler ask for
\* the mempool.
Requests(t) ==
    IF t = "miner"
    THEN (IF miner.pc \in {"snapshot", "pow"} THEN {"blockchain"}
          ELSE IF miner.pc = "collect" THEN {"mempool"} ELSE {})
    ELSE IF t = "fbw"
    THEN (IF fbw.pc = "recv" /\ consumed < Len(emitted) THEN {"blockchain"} ELSE {})
    ELSE IF t = "gen"
    THEN (IF gen.pc = "tick" THEN {"blockchain"} ELSE {})
    ELSE IF t = "relay"
    THEN (IF relay.pc = "recv" /\ finished_txn # <<>> THEN {"mempool"} ELSE {})
    ELSE (IF gw[t].pc = "mempool" THEN {"mempool"} ELSE {})

\* Thread t waits for a mutex whose guard thread u holds.
WaitsFor(t, u) == t # u /\ Requests(t) \cap Holds(u) # {}

\* C21: no thread asks for the blockchain mutex while it holds the mempool
\* guard; a thread that asks for the mempool mutex while it holds the
\* blockchain guard is a gossip worker in the Ok arm of its Blocks handler;
\* and no two threads wait for each other (with two mutexes a cycle of
\* waiting threads has two threads).
C21_LockOrder ==
    /\ \A t \in Threads : "mempool" \in Holds(t) => "blockchain" \notin Requests(t)
    /\ \A t \in Threads :
          ("blockchain" \in Holds(t) /\ "mempool" \in Requests(t)) =>
              t \in Workers /\ gw[t].msg.type = "Blocks"
    /\ \A t, u \in Threads : ~ (WaitsFor(t, u) /\ WaitsFor(u, t))

\* A gossip worker that has inserted a block holds the blockchain guard and
\* waits for the mempool guard the miner holds for its selection.
C21_Witness ==
    /\ Holds("w1") = {"blockchain"}
    /\ Holds("miner") = {"mempool"}
    /\ WaitsFor("w1", "miner")
    /\ mempool # EmptyMap

(***************************************************************************)
(* The gossip worker and the bytes of its peers.                           *)
(***************************************************************************)
\* ---- C22 ----
\* C22: a worker that has taken bytes that are no Message skips them: it is
\* back at the head of its loop, ready for the next message.
C22_MalformedSkipped ==
    \A w \in Workers : gw[w].msg = Malformed => gw[w].pc = "done"

\* ---- C25 ----
\* C25: the handling of a Blocks message comes to its end: no worker stays
\* in the while loop on one block for ever, and a worker that is past the
\* loop does not hold the blockchain lock.
C25_BlocksHandlingTerminates ==
    \A w \in Workers :
        /\ gw[w].pc # "spin"
        /\ gw[w].pc \in {"recv", "done"} => blockchain_lock # w

\* ---- C29 ----
\* Worker w has answered block b with GetBlocks(<<hash(b)>>), the reply of
\* the MissingParent arm.
AskedAgain(w, b) ==
    \E k \in 1 .. Len(gw[w].reply) : gw[w].reply[k] = GetBlocks(<<HashBlock(b)>>)

\* Block b waits in the orphan buffer of w under its parent's hash.
Buffered(w, b) ==
    /\ get_parent(b) \in DOMAIN orphan_buffer[w]
    /\ \E k \in 1 .. Len(orphan_buffer[w][get_parent(b)]) :
           orphan_buffer[w][get_parent(b)][k] = b

\* Hash h is in the NewBlockHashes broadcast of the message of w.
Announced(w, h) ==
    \E m \in 1 .. Len(gw[w].bcast) :
        \E k \in 1 .. Len(gw[w].bcast[m].body) : gw[w].bcast[m].body[k] = h

\* A worker is done with a Blocks message.
DoneWithBlocks(w) == gw[w].pc = "done" /\ gw[w].msg.type = "Blocks"

OrphansOnly(w) ==
    /\ gw[w].pc = "recv"
    /\ gw'[w].msg.type = "Blocks"
    /\ \A k \in 1 .. Len(gw'[w].msg.body) :
          LET b == gw'[w].msg.body[k]
          IN  /\ HashWithinTarget(b)
              /\ HashBlock(b) \notin DOMAIN map
              /\ insert(map, tip, b).ret = MissingParent

C30_OrphansClearedWhenParentArrives ==
    \A w \in Workers :
        gw[w].pc \in {"recv", "done"} =>
            \A h \in DOMAIN orphan_buffer[w] : h \notin DOMAIN map

(***************************************************************************)
(* The miner's blocks and its selection from the mempool.                  *)
(***************************************************************************)
\* ---- C26 ----
\* The transactions of block, each with the next nonce of its sender and a
\* value its sender's balance covers in parent_state, no two of one sender.
SelectedFrom(parent_state, transactions) ==
    /\ \A k \in 1 .. Len(transactions) :
          LET txn == transactions[k]
          IN  /\ SenderAddress(txn) \in DOMAIN parent_state
              /\ txn.transaction.account_nonce = parent_state[SenderAddress(txn)][1] + 1
              /\ txn.transaction.value <= parent_state[SenderAddress(txn)][2]
    /\ \A j, k \in 1 .. Len(transactions) :
          j # k => SenderAddress(transactions[j]) # SenderAddress(transactions[k])

C27_EmittedOnTip ==
    [][emitted' # emitted => get_parent(emitted'[Len(emitted')]) = tip]_vars

\* ---- C28 ----
\* The miner leaves the selection of one attempt: for the proof of work,
\* for the head of its loop when no transaction is accepted, or by the
\* panic of the thread inside the for loop.
SelectionStep ==
    /\ miner.pc = "collect"
    /\ miner'.pc \in {"pow", "ctl", "panicked"}

\* C28: the selection of an attempt adds nothing to the mempool and leaves
\* the entries it did not iterate as they were; entries are left only when
\* the iteration stopped at BLOCK_SIZE_LIMIT accepted transactions,
\* otherwise the mempool is empty afterwards, the entries accepted into the
\* block and the rejected ones alike removed.
C28_AggressiveEviction ==
    [][SelectionStep =>
          /\ DOMAIN mempool' \subseteq DOMAIN mempool
          /\ \A h \in DOMAIN mempool' : mempool'[h] = mempool[h]
          /\ \A k \in 1 .. Len(miner'.transactions) :
                 /\ HashTxn(miner'.transactions[k]) \in DOMAIN mempool
                 /\ HashTxn(miner'.transactions[k]) \notin DOMAIN mempool'
          /\ mempool' # EmptyMap => Len(miner'.transactions) = BLOCK_SIZE_LIMIT
          /\ Len(miner'.transactions) < BLOCK_SIZE_LIMIT => mempool' = EmptyMap]_vars

\* ---- C36 ----
\* C36: no orphan buffer holds a block twice.
C36_OrphansHeldOnce ==
    \A w \in Workers :
        \A h \in DOMAIN orphan_buffer[w] :
            \A j, k \in 1 .. Len(orphan_buffer[w][h]) :
                j # k => orphan_buffer[w][h][j] # orphan_buffer[w][h][k]

\* ---- C37 ----
\* Transaction txn is in a block the miner has sent.
InEmitted(blocks, txn) ==
    \E k \in 1 .. Len(blocks) :
        \E j \in 1 .. Len(blocks[k].content.transactions) :
            blocks[k].content.transactions[j] = txn

\* C37: when an attempt of the miner ends, with the block sent or with the
\* attempt dropped because the tip has moved, every transaction of the
\* candidate block is in a block the miner has sent or in the mempool.
C37_AcceptedTransactionsKept ==
    [][(miner.pc \in {"pow", "hash"} /\ miner'.pc = "ctl") =>
          \A k \in 1 .. Len(miner.transactions) :
              \/ InEmitted(emitted', miner.transactions[k])
              \/ HashTxn(miner.transactions[k]) \in DOMAIN mempool']_vars

(***************************************************************************)
(* Blocks and the mempool.                                                 *)
(***************************************************************************)
\* ---- C31 ----
\* Some transaction of the stored block of hash h is in mempool mp.
InMempool(mp, bc_map, h) ==
    \E j \in 1 .. Len(bc_map[h].block.content.transactions) :
        HashTxn(bc_map[h].block.content.transactions[j]) \in DOMAIN mp

\* C31: when a gossip worker releases the blockchain lock at the end of a
\* Blocks message, no transaction of a block it has inserted during that
\* message is in the mempool.
C31_InsertedTxnsOutOfMempool ==
    [][\A w \in Workers :
          (blockchain_lock = w /\ blockchain_lock' = "free") =>
              \A k \in 1 .. Len(gw'[w].new_block_hashes) :
                  ~ InMempool(mempool', map', gw'[w].new_block_hashes[k])]_vars

\* ---- C32 ----
\* C32: when the finished-block worker has inserted a block of the miner
\* and broadcasts its hash, no transaction of that block is in the mempool.
C32_MinedTxnsOutOfMempool ==
    [][(consumed' = consumed + 1 /\ fbw'.result = Ok) =>
          ~ InMempool(mempool', map', HashBlock(emitted[consumed + 1]))]_vars

\* ---- C33 ----
\* C33: the miner thread outlives every mining attempt: it never ends by a
\* panic in its selection, and the mempool mutex is never poisoned.
C33_MinerSurvivesSelection ==
    [][miner.pc = "collect" => miner'.pc # "panicked" /\ mempool_lock' # "poisoned"]_vars

(***************************************************************************)
(* The generator.                                                          *)
(***************************************************************************)
\* ---- C34 ----
\* Transaction txn is a transfer the generator may build on parent_state:
\* from a seeded account to another seeded account, with the sender's nonce
\* plus one, a value from 1 up to but not including half the sender's
\* balance (rounded down), signed with the sender's key.
GeneratedOn(parent_state, txn) ==
    \E sender_seed \in Seeds :
        LET sender_info == parent_state[AddressOf(PublicKey(sender_seed))]
        IN  /\ txn.public_key = PublicKey(sender_seed)
            /\ \E receiver_seed \in Seeds \ {sender_seed} :
                   txn.transaction.receiver = AddressOf(PublicKey(receiver_seed))
            /\ txn.transaction.account_nonce = sender_info[1] + 1
            /\ 1 <= txn.transaction.value
            /\ txn.transaction.value < sender_info[2] \div 2
            /\ sender_info[2] # 0
            /\ sender_info[2] \div 2 > 1
            /\ verify(txn.transaction, txn.public_key, txn.signature)

RECURSIVE SumBalances(_, _)
SumBalances(state, keys) ==
    IF keys = {} THEN 0
    ELSE LET a == CHOOSE x \in keys : TRUE
         IN  state[a][2] + SumBalances(state, keys \ {a})

\* C35: in the state stored with every block the balances add up to the
\* genesis total.
C35_ValueConserved ==
    \A h \in DOMAIN map :
        SumBalances(map[h].state, DOMAIN map[h].state) = GenesisBalance

\* ---- C38 ----
\* C38: every stored block carries the difficulty of the genesis block and
\* its hash is within that target.
C38_StoredBlocksMeetGenesisTarget ==
    \A h \in DOMAIN map :
        /\ map[h].block.header.difficulty = GenesisDifficulty
        /\ HashWithinTarget(map[h].block)

\* ---- C39 ----
\* C39: the merkle_root in the header of every stored block is the root of
\* the Merkle tree of the block's transactions.
C39_StoredMerkleRootMatches ==
    \A h \in DOMAIN map :
        LET transactions == map[h].block.content.transactions
        IN  map[h].block.header.merkle_root =
                MerkleTree_new([j \in 1 .. Len(transactions) |->
                                   HashTxn(transactions[j])]).root

(***************************************************************************)
(* Announcements.                                                          *)
(***************************************************************************)
\* Every hash a gossip worker is about to broadcast as a new block hash is
\* the key of a stored block.
GossipAnnouncesStored ==
    \A w \in Workers :
        \A i \in 1 .. Len(gw[w].bcast) :
            gw[w].bcast[i].type = "NewBlockHashes" =>
                \A k \in 1 .. Len(gw[w].bcast[i].body) :
                    /\ gw[w].bcast[i].body[k] \in DOMAIN map
                    /\ HashBlock(map[gw[w].bcast[i].body[k]].block) = gw[w].bcast[i].body[k]

\* The finished-block worker goes on to its broadcast only with the block
\* stored under its hash.
MinedAnnouncedStored ==
    (consumed' = consumed + 1 /\ fbw'.pc = "recv") =>
        /\ HashBlock(emitted[consumed + 1]) \in DOMAIN map'
        /\ map'[HashBlock(emitted[consumed + 1])].block = emitted[consumed + 1]

\* No step removes or replaces a stored block.
BlocksKept ==
    \A h \in DOMAIN map : h \in DOMAIN map' /\ map'[h].block = map[h].block

\* A GetBlocks for a stored hash is answered with the block stored under it.
StoredServed ==
    \A w \in Workers :
        (gw[w].pc = "recv" /\ gw'[w].msg.type = "GetBlocks") =>
            \A k \in 1 .. Len(gw'[w].msg.body) :
                gw'[w].msg.body[k] \in DOMAIN map =>
                    /\ Len(gw'[w].reply) = 1
                    /\ gw'[w].reply[1].type = "Blocks"
                    /\ \E j \in 1 .. Len(gw'[w].reply[1].body) :
                          gw'[w].reply[1].body[j] = map[gw'[w].msg.body[k]].block

====
